\* Every set of flags, with every database operation.
CONSTANTS
    Flags <- AllFlags
SPECIFICATION CliSpec
INVARIANTS NothingIgnored RunsWhatIsDocumented
