\* Any number of runs, two at a time, over two files.
CONSTANTS
    f1 = f1
    f2 = f2
    r1 = r1
    r2 = r2
    Zero = Zero
    Runs = {r1, r2}
    Files = {f1, f2}
    SystemFiles = {f1, f2}
    Folders <- AnyFolder
SYMMETRY Symmetry
SPECIFICATION CleanDbSpec
INVARIANTS CleanDbTypeOK NothingInvented SavedIsExact TornOnlyLoses
