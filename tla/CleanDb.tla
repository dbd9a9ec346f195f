------------------------------- MODULE CleanDb -------------------------------
(***************************************************************************)
(* The clean-hash database (filter/hashdb.rs) as several revdump processes *)
(* use it: `-db gen|add|rem|clean` loads the whole file, edits the set in  *)
(* memory and rewrites the file in place (lib.rs, manage_db); a dump only  *)
(* loads it.  Nothing locks the file, a write can stop anywhere, and two   *)
(* processes may write at the same time, each at its own offset.           *)
(*                                                                         *)
(* Every line of the file has 65 bytes, so lines of two writers fall on    *)
(* each other.  The file is a sequence of half lines: half 2i-1 begins     *)
(* line i, half 2i ends it with the newline.  A SHA-256 value is a pair of *)
(* halves and that of file f is <<f, f>>: a pair of two different files is *)
(* the hash of no file.                                                    *)
(***************************************************************************)
EXTENDS Naturals, Sequences, FiniteSets, SequencesExt

CONSTANTS Runs,         \* places for a revdump process, one after the other in each
          Files,        \* contents of PE files, told apart by their SHA-256
          SystemFiles,  \* those directly in System32 and SysWOW64
          Folders,      \* what a folder that a user names may hold, subfolders included
          Zero          \* the bytes of a hole that no write has filled

ASSUME CleanDbAssumption ==
    /\ IsFiniteSet(Files)
    /\ SystemFiles \subseteq Files
    /\ Folders \subseteq SUBSET Files
    /\ Zero \notin Files

VARIABLES disk,      \* the half lines of clean.hashes; <<>> also when it is missing
          stage,     \* where each process is
          db,        \* CleanDb.hashes of each process
          out,       \* the half lines that save has built
          off,       \* how many of them are written
          meant,     \* history: the files the run read from the database, then those
                     \* it was asked to leave there
          intact,    \* history: the run read the file and nobody else wrote since
          added      \* history: the files that were in the first database or that
                     \* some gen or add has hashed

history == <<meant, intact, added>>
vars == <<disk, stage, db, out, off, history>>

Hashes == Files \X Files
HashOf(f) == <<f, f>>

-----------------------------------------------------------------------------
\* lines().filter_map(parse_hex): a line of 64 hex digits is a hash, anything
\* else is dropped.  A hole has no newline: it swallows the line behind it too.
Lines(file) == {i \in 1 .. (Len(file) \div 2) :
                  /\ file[2 * i - 1] # Zero
                  /\ file[2 * i] # Zero
                  /\ i > 1 => file[2 * i - 2] # Zero}
Hash(file, i) == <<file[2 * i - 1], file[2 * i]>>

\* A parse_hex without the length check, which leaves the missing bytes zero.
Mutant_ParseHex(file) ==
    {<<file[2 * i - 1], IF Len(file) < 2 * i THEN Zero ELSE file[2 * i]>> :
        i \in 1 .. ((Len(file) + 1) \div 2)}

ParseHex(file) == {Hash(file, i) : i \in Lines(file)}

\* contains_file, contains_device_file: known-good is a file whose hash is in the set.
KnownGood(hashes) == {f \in Files : HashOf(f) \in hashes}

\* The lines of save, in some order: that of a HashSet is arbitrary.
Text(hashes) ==
    {[k \in 1 .. (2 * Len(s)) |-> s[(k + 1) \div 2][IF k % 2 = 1 THEN 1 ELSE 2]] :
        s \in SetToSeqs(hashes)}

Init ==
    /\ \E known \in SUBSET Files :
         /\ disk \in Text({HashOf(f) : f \in known})
         /\ added = known
    /\ stage = [r \in Runs |-> "idle"]
    /\ db = [r \in Runs |-> {}]
    /\ out = [r \in Runs |-> <<>>]
    /\ off = [r \in Runs |-> 0]
    /\ meant = [r \in Runs |-> {}]
    /\ intact = [r \in Runs |-> FALSE]

-----------------------------------------------------------------------------
Ended == {"idle", "saved", "stopped"}

\* CleanDb::load of a new process: a file that cannot be read, for whatever
\* reason, is an empty set.
Load(r) ==
    /\ stage[r] \in Ended
    /\ stage' = [stage EXCEPT ![r] = "loaded"]
    /\ \E readable \in BOOLEAN :
         /\ db' = [db EXCEPT ![r] = IF readable THEN ParseHex(disk) ELSE {}]
         /\ intact' = [intact EXCEPT ![r] = readable]
    /\ meant' = [meant EXCEPT ![r] = KnownGood(ParseHex(disk))]
    /\ UNCHANGED <<disk, out, off, added>>

\* The process is over, and its memory is gone.
Ends(r, how) ==
    /\ stage' = [stage EXCEPT ![r] = how]
    /\ db' = [db EXCEPT ![r] = {}]
    /\ out' = [out EXCEPT ![r] = <<>>]
    /\ off' = [off EXCEPT ![r] = 0]

\* A dump uses the set it has loaded and saves nothing.
Dumped(r) ==
    /\ stage[r] = "loaded"
    /\ Ends(r, "idle")
    /\ UNCHANGED <<disk, history>>

\* manage_db between load and save.  A file that cannot be opened or read has no
\* hash and is passed over, in add_dir and in remove_dir.
Edited(r, hashes, files) ==
    /\ stage[r] = "loaded"
    /\ stage' = [stage EXCEPT ![r] = "edited"]
    /\ db' = [db EXCEPT ![r] = hashes]
    /\ meant' = [meant EXCEPT ![r] = files]
    /\ UNCHANGED <<disk, out, off, intact>>

AddDir(r, folder) == \E files \in SUBSET folder :
    /\ Edited(r, db[r] \cup {HashOf(f) : f \in files}, meant[r] \cup files)
    /\ added' = added \cup files

Gen(r) == AddDir(r, SystemFiles)
Add(r) == \E folder \in Folders : AddDir(r, folder)

\* remove_dir as a copy of add_dir in which the insert was left.
Mutant_Rem(r) == \E folder \in Folders : \E files \in SUBSET folder :
    /\ Edited(r, db[r] \cup {HashOf(f) : f \in files}, meant[r] \ files)
    /\ UNCHANGED added

Rem(r) == \E folder \in Folders : \E files \in SUBSET folder :
    /\ Edited(r, db[r] \ {HashOf(f) : f \in files}, meant[r] \ files)
    /\ UNCHANGED added

Clean(r) ==
    /\ Edited(r, {}, {})
    /\ UNCHANGED added

\* Somebody else's writes end what a run knows of the file.
Writes(r) == intact' = [s \in Runs |-> s = r /\ intact[r]]

\* A file opened for writing without being truncated.
Mutant_Open(r) ==
    /\ stage[r] = "edited"
    /\ stage' = [stage EXCEPT ![r] = "writing"]
    /\ \E text \in Text(db[r]) : out' = [out EXCEPT ![r] = text]
    /\ off' = [off EXCEPT ![r] = 0]
    /\ Writes(r)
    /\ UNCHANGED <<disk, db, meant, added>>

\* save up to File::create inside fs::write, which truncates.
Open(r) ==
    /\ stage[r] = "edited"
    /\ stage' = [stage EXCEPT ![r] = "writing"]
    /\ \E text \in Text(db[r]) : out' = [out EXCEPT ![r] = text]
    /\ off' = [off EXCEPT ![r] = 0]
    /\ disk' = <<>>
    /\ Writes(r)
    /\ UNCHANGED <<db, meant, added>>

\* The file with half line n written; what is missing in front of it reads as zero.
WriteAt(file, n, half) ==
    [k \in 1 .. (IF n > Len(file) THEN n ELSE Len(file)) |->
        IF k = n THEN half ELSE IF k <= Len(file) THEN file[k] ELSE Zero]

\* write_all, half a line at a time, at the process's own offset.
Write(r) ==
    /\ stage[r] = "writing"
    /\ off[r] < Len(out[r])
    /\ off' = [off EXCEPT ![r] = @ + 1]
    /\ disk' = WriteAt(disk, off[r] + 1, out[r][off[r] + 1])
    /\ Writes(r)
    /\ UNCHANGED <<stage, db, out, meant, added>>

\* A save that reports success although the last write has not been made.
Mutant_Saved(r) ==
    /\ stage[r] = "writing"
    /\ off[r] + 1 >= Len(out[r])
    /\ Ends(r, "saved")
    /\ UNCHANGED <<disk, history>>

Saved(r) ==
    /\ stage[r] = "writing"
    /\ off[r] = Len(out[r])
    /\ Ends(r, "saved")
    /\ UNCHANGED <<disk, history>>

\* create_dir_all, File::create or a write fails, or the process is killed: the
\* file stays as it is.
Stops(r) ==
    /\ stage[r] \in {"loaded", "edited", "writing"}
    /\ Ends(r, IF stage[r] = "writing" THEN "stopped" ELSE "idle")
    /\ UNCHANGED <<disk, history>>

Next == \E r \in Runs :
    \/ Load(r) \/ Dumped(r)
    \/ Gen(r) \/ Add(r) \/ Rem(r) \/ Clean(r)
    \/ Open(r) \/ Write(r) \/ Saved(r) \/ Stops(r)

CleanDbSpec == Init /\ [][Next]_vars

-----------------------------------------------------------------------------
(* The database holds hash values, whole or mixed of two, never a torn one. *)
CleanDbTypeOK ==
    /\ disk \in Seq(Files \cup {Zero})
    /\ stage \in [Runs -> Ended \cup {"loaded", "edited", "writing"}]
    /\ db \in [Runs -> SUBSET Hashes]
    /\ out \in [Runs -> Seq(Files)]
    /\ off \in [Runs -> Nat]
    /\ meant \in [Runs -> SUBSET Files]
    /\ intact \in [Runs -> BOOLEAN]
    /\ added \in SUBSET Files

(* Whatever processes overlap, die or find a file they cannot read: a dump  *)
(* skips a module as known-good only if somebody has had it hashed as such. *)
NothingInvented == \A r \in Runs : KnownGood(db[r]) \subseteq added

(* A run that read the database and that no other writer disturbed leaves   *)
(* exactly what it was asked for: save and load are inverse, in any order   *)
(* of lines and after whatever a crash or an overlap had left in the file.  *)
SavedIsExact ==
    \A r \in Runs : stage[r] = "saved" /\ intact[r]
        => KnownGood(ParseHex(disk)) = meant[r]

(* An interrupted save of such a run loses entries, and does nothing else:  *)
(* no file that it was to remove is known-good again.                       *)
TornOnlyLoses ==
    \A r \in Runs : stage[r] \in {"writing", "stopped"} /\ intact[r]
        => KnownGood(ParseHex(disk)) \subseteq meant[r]
=============================================================================
