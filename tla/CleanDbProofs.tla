---------------------------- MODULE CleanDbProofs ----------------------------
(***************************************************************************)
(* Theorems about CleanDb, for every number of processes and of files.     *)
(***************************************************************************)
EXTENDS CleanDb, TLAPS, FiniteSetTheorems, SequenceTheorems

-----------------------------------------------------------------------------
(* What the text of a set and the set read from a text are.                *)

LEMMA Halving ==
    ASSUME NEW n \in Nat
    PROVE  /\ n \div 2 \in Nat
           /\ 2 * (n \div 2) <= n
           /\ (2 * n) \div 2 = n
  BY SMT

(* What is read from a file has its halves from the file.                  *)
LEMMA ParsedFrom ==
    ASSUME NEW S, NEW file \in Seq(S \cup {Zero})
    PROVE  ParseHex(file) \subseteq S \X S
  <1> SUFFICES ASSUME NEW i \in Lines(file) PROVE Hash(file, i) \in S \X S
    BY DEF ParseHex
  <1>1. Len(file) \in Nat
    BY LenProperties
  <1>2. i \in 1 .. (Len(file) \div 2) /\ file[2 * i - 1] # Zero /\ file[2 * i] # Zero
    BY DEF Lines
  <1>3. 2 * i \in 1 .. Len(file) /\ 2 * i - 1 \in 1 .. Len(file)
    BY <1>1, <1>2, Halving
  <1>4. file[2 * i] \in S \cup {Zero} /\ file[2 * i - 1] \in S \cup {Zero}
    BY <1>3, ElementOfSeq
  <1> QED BY <1>2, <1>4 DEF Hash

(* An order of the lines that repeats none has them all.                   *)
LEMMA OrderCovers ==
    ASSUME NEW hashes, IsFiniteSet(hashes),
           NEW s \in [1 .. Cardinality(hashes) -> hashes],
           \A i, j \in 1 .. Cardinality(hashes) : i # j => s[i] # s[j],
           NEW h \in hashes
    PROVE  \E i \in 1 .. Cardinality(hashes) : s[i] = h
  <1> DEFINE D == 1 .. Cardinality(hashes)
  <1>1. Cardinality(hashes) \in Nat
    BY FS_CardinalityType
  <1>2. Cardinality(D) = Cardinality(hashes)
    BY <1>1, FS_Interval
  <1>3. s \in Injection(D, hashes)
    BY DEF Injection, IsInjective
  <1>4. s \in Surjection(D, hashes)
    BY <1>2, <1>3, FS_Injection
  <1> QED BY <1>4 DEF Surjection

(* A text is an order of the lines.                                        *)
LEMMA TextHasOrder ==
    ASSUME NEW hashes, IsFiniteSet(hashes), NEW text \in Text(hashes)
    PROVE  \E s \in SetToSeqs(hashes) :
             /\ s \in [1 .. Cardinality(hashes) -> hashes]
             /\ \A h \in hashes : \E i \in 1 .. Cardinality(hashes) : s[i] = h
             /\ text = [k \in 1 .. (2 * Cardinality(hashes)) |->
                          s[(k + 1) \div 2][IF k % 2 = 1 THEN 1 ELSE 2]]
  <1>1. PICK s \in SetToSeqs(hashes) :
          text = [k \in 1 .. (2 * Len(s)) |-> s[(k + 1) \div 2][IF k % 2 = 1 THEN 1 ELSE 2]]
    BY DEF Text
  <1>2. /\ s \in [1 .. Cardinality(hashes) -> hashes]
        /\ \A i, j \in 1 .. Cardinality(hashes) : i # j => s[i] # s[j]
    BY DEF SetToSeqs
  <1>3. Cardinality(hashes) \in Nat
    BY FS_CardinalityType
  <1>4. s \in Seq(hashes)
    BY <1>2, <1>3, SeqDef
  <1>5. Len(s) = Cardinality(hashes)
    BY <1>2, <1>3, <1>4, LenProperties
  <1>6. \A h \in hashes : \E i \in 1 .. Cardinality(hashes) : s[i] = h
    BY <1>2, OrderCovers
  <1> QED BY <1>1, <1>2, <1>5, <1>6

LEMMA HalfIndex ==
    ASSUME NEW n \in Nat, NEW k \in 1 .. (2 * n)
    PROVE  (k + 1) \div 2 \in 1 .. n
  BY SMT

LEMMA TextType ==
    ASSUME NEW S, NEW hashes \in SUBSET (S \X S), IsFiniteSet(hashes), NEW text \in Text(hashes)
    PROVE  /\ text \in Seq(S)
           /\ Len(text) = 2 * Cardinality(hashes)
  <1> DEFINE n == Cardinality(hashes)
  <1>1. n \in Nat
    BY FS_CardinalityType
  <1>2. PICK s \in SetToSeqs(hashes) :
          /\ s \in [1 .. n -> hashes]
          /\ text = [k \in 1 .. (2 * n) |-> s[(k + 1) \div 2][IF k % 2 = 1 THEN 1 ELSE 2]]
    BY TextHasOrder
  <1>3. ASSUME NEW k \in 1 .. (2 * n) PROVE s[(k + 1) \div 2][IF k % 2 = 1 THEN 1 ELSE 2] \in S
    <2>1. s[(k + 1) \div 2] \in S \X S
      BY <1>1, <1>2, HalfIndex
    <2> QED BY <2>1
  <1>4. text \in [1 .. (2 * n) -> S]
    BY <1>2, <1>3
  <1>5. text \in Seq(S)
    BY <1>1, <1>4, SeqDef
  <1>6. Len(text) = 2 * n
    BY <1>1, <1>4, <1>5, LenProperties
  <1> QED BY <1>5, <1>6

LEMMA WriteAtType ==
    ASSUME NEW S, NEW file \in Seq(S \cup {Zero}), NEW n \in Nat \ {0}, NEW half \in S
    PROVE  WriteAt(file, n, half) \in Seq(S \cup {Zero})
  <1> DEFINE m == IF n > Len(file) THEN n ELSE Len(file)
  <1>1. Len(file) \in Nat /\ m \in Nat
    BY LenProperties
  <1>2. \A k \in 1 .. m : k <= Len(file) => file[k] \in S \cup {Zero}
    BY <1>1, ElementOfSeq
  <1>3. WriteAt(file, n, half) \in [1 .. m -> S \cup {Zero}]
    BY <1>1, <1>2 DEF WriteAt
  <1> QED BY <1>1, <1>3, SeqDef

-----------------------------------------------------------------------------
(* Whatever the file, a memory or a text of a run holds was added.         *)
FromAdded ==
    /\ disk \in Seq(added \cup {Zero})
    /\ db \in [Runs -> SUBSET (added \X added)]
    /\ out \in [Runs -> Seq(added)]

Typed == CleanDbTypeOK /\ FromAdded

LEMMA FilesFinite ==
    ASSUME CleanDbTypeOK, NEW hashes \in SUBSET (added \X added)
    PROVE  IsFiniteSet(hashes)
  <1>1. IsFiniteSet(added)
    BY CleanDbAssumption, FS_Subset DEF CleanDbTypeOK
  <1>2. IsFiniteSet(added \X added)
    BY <1>1, FS_Product
  <1> QED BY <1>2, FS_Subset

(* More that was added takes nothing away.                                 *)
LEMMA FromAddedMonotonic ==
    ASSUME NEW S, NEW T, S \subseteq T
    PROVE  /\ Seq(S \cup {Zero}) \subseteq Seq(T \cup {Zero})
           /\ Seq(S) \subseteq Seq(T)
           /\ SUBSET (S \X S) \subseteq SUBSET (T \X T)
  <1>1. S \cup {Zero} \subseteq T \cup {Zero}
    OBVIOUS
  <1>2. Seq(S \cup {Zero}) \subseteq Seq(T \cup {Zero})
    BY <1>1, SeqMonotonic
  <1>3. Seq(S) \subseteq Seq(T)
    BY SeqMonotonic
  <1> QED BY <1>2, <1>3

(* The halves of what was added are halves of files.                       *)
LEMMA FromAddedIsTyped ==
    ASSUME NEW A \in SUBSET Files, NEW d \in Seq(A \cup {Zero}),
           NEW b \in [Runs -> SUBSET (A \X A)], NEW o \in [Runs -> Seq(A)]
    PROVE  /\ d \in Seq(Files \cup {Zero})
           /\ b \in [Runs -> SUBSET Hashes]
           /\ o \in [Runs -> Seq(Files)]
  <1>1. A \subseteq Files
    OBVIOUS
  <1>2. /\ Seq(A \cup {Zero}) \subseteq Seq(Files \cup {Zero})
        /\ Seq(A) \subseteq Seq(Files)
        /\ SUBSET (A \X A) \subseteq SUBSET (Files \X Files)
    BY <1>1, FromAddedMonotonic
  <1> QED BY <1>2 DEF Hashes

LEMMA InitTyped == Init => Typed
  <1> SUFFICES ASSUME Init PROVE Typed
    OBVIOUS
  <1>1. PICK known \in SUBSET Files :
          /\ disk \in Text({HashOf(f) : f \in known})
          /\ added = known
    BY DEF Init
  <1>2. IsFiniteSet(known)
    BY CleanDbAssumption, FS_Subset
  <1>3. IsFiniteSet(known \X known)
    BY <1>2, FS_Product
  <1>4. {HashOf(f) : f \in known} \subseteq known \X known
    BY DEF HashOf
  <1>5. disk \in Seq(known)
    BY <1>1, <1>3, <1>4, FS_Subset, TextType
  <1>6. disk \in Seq(added \cup {Zero})
    BY <1>1, <1>5, SeqMonotonic
  <1>7. FromAdded
    BY <1>6, EmptySeq DEF Init, FromAdded
  <1> QED BY <1>1, <1>7, FromAddedIsTyped DEF Init, Typed, CleanDbTypeOK, FromAdded, Ended

LEMMA ParsedIsAdded ==
    ASSUME Typed
    PROVE  ParseHex(disk) \in SUBSET (added \X added)
  BY ParsedFrom DEF Typed, FromAdded

LEMMA KnownGoodType ==
    ASSUME NEW hashes
    PROVE  KnownGood(hashes) \in SUBSET Files
  BY DEF KnownGood

(* A step is typed if what it leaves is from what was added.               *)
LEMMA TypedNext ==
    ASSUME FromAdded', added' \in SUBSET Files,
           stage' \in [Runs -> Ended \cup {"loaded", "edited", "writing"}],
           off' \in [Runs -> Nat],
           meant' \in [Runs -> SUBSET Files],
           intact' \in [Runs -> BOOLEAN]
    PROVE  Typed'
  <1>1. /\ disk' \in Seq(Files \cup {Zero})
        /\ db' \in [Runs -> SUBSET Hashes]
        /\ out' \in [Runs -> Seq(Files)]
    BY FromAddedIsTyped DEF FromAdded
  <1> QED BY <1>1 DEF Typed, CleanDbTypeOK

LEMMA EndsTyped ==
    ASSUME Typed, NEW r \in Runs, NEW how \in Ended, Ends(r, how),
           UNCHANGED <<disk, history>>
    PROVE  Typed'
  <1>1. FromAdded'
    BY EmptySeq DEF Typed, FromAdded, Ends, history
  <1> QED BY <1>1, TypedNext DEF Typed, CleanDbTypeOK, Ends, history

LEMMA EditedTyped ==
    ASSUME Typed, NEW r \in Runs,
           added \subseteq added', added' \in SUBSET Files,
           NEW hashes \in SUBSET (added' \X added'), NEW files \in SUBSET Files,
           Edited(r, hashes, files)
    PROVE  Typed'
  <1>1. disk' \in Seq(added' \cup {Zero}) /\ out' \in [Runs -> Seq(added')]
    BY FromAddedMonotonic DEF Typed, FromAdded, Edited
  <1>2. db \in [Runs -> SUBSET (added' \X added')]
    BY FromAddedMonotonic DEF Typed, FromAdded
  <1>3. db' \in [Runs -> SUBSET (added' \X added')]
    BY <1>2 DEF Edited
  <1> QED BY <1>1, <1>3, TypedNext DEF FromAdded, Typed, CleanDbTypeOK, Edited

LEMMA AddDirTyped ==
    ASSUME Typed, NEW r \in Runs, NEW folder \in SUBSET Files, AddDir(r, folder)
    PROVE  Typed'
  <1>1. PICK files \in SUBSET folder :
          /\ Edited(r, db[r] \cup {HashOf(f) : f \in files}, meant[r] \cup files)
          /\ added' = added \cup files
    BY DEF AddDir
  <1>2. added \subseteq added' /\ added' \in SUBSET Files
    BY <1>1 DEF Typed, CleanDbTypeOK
  <1>3. db[r] \cup {HashOf(f) : f \in files} \in SUBSET (added' \X added')
    BY <1>1 DEF HashOf, Typed, FromAdded
  <1>4. meant[r] \cup files \in SUBSET Files
    BY DEF Typed, CleanDbTypeOK
  <1> QED BY <1>1, <1>2, <1>3, <1>4, EditedTyped

LEMMA RemTyped ==
    ASSUME Typed, NEW r \in Runs, Rem(r)
    PROVE  Typed'
  <1>1. PICK files :
          /\ Edited(r, db[r] \ {HashOf(f) : f \in files}, meant[r] \ files)
          /\ added' = added
    BY DEF Rem
  <1>2. db[r] \ {HashOf(f) : f \in files} \in SUBSET (added' \X added')
    BY <1>1 DEF Typed, FromAdded
  <1>3. meant[r] \ files \in SUBSET Files /\ added' \in SUBSET Files
    BY <1>1 DEF Typed, CleanDbTypeOK
  <1> QED BY <1>1, <1>2, <1>3, EditedTyped

LEMMA CleanTyped ==
    ASSUME Typed, NEW r \in Runs, Clean(r)
    PROVE  Typed'
  <1>1. added' = added /\ added \in SUBSET Files
    BY DEF Clean, Typed, CleanDbTypeOK
  <1> QED BY <1>1, EditedTyped DEF Clean

LEMMA LoadTyped ==
    ASSUME Typed, NEW r \in Runs, Load(r)
    PROVE  Typed'
  <1>1. db' \in [Runs -> SUBSET (added \X added)]
    BY ParsedIsAdded DEF Load, Typed, FromAdded
  <1>2. FromAdded'
    BY <1>1 DEF Load, Typed, FromAdded
  <1>3. meant' \in [Runs -> SUBSET Files]
    BY KnownGoodType DEF Load, Typed, CleanDbTypeOK
  <1> QED BY <1>2, <1>3, TypedNext DEF Load, Typed, CleanDbTypeOK

LEMMA WritesType ==
    ASSUME NEW r \in Runs, Writes(r), intact \in [Runs -> BOOLEAN]
    PROVE  intact' \in [Runs -> BOOLEAN]
  BY DEF Writes

LEMMA OpenTyped ==
    ASSUME Typed, NEW r \in Runs, Open(r)
    PROVE  Typed'
  <1>1. PICK text \in Text(db[r]) : out' = [out EXCEPT ![r] = text]
    BY DEF Open
  <1>2. db[r] \in SUBSET (added \X added)
    BY DEF Typed, FromAdded
  <1>3. text \in Seq(added)
    BY <1>2, FilesFinite, TextType DEF Typed
  <1>4. FromAdded'
    BY <1>1, <1>3, EmptySeq DEF Open, Typed, FromAdded
  <1> QED BY <1>4, TypedNext, WritesType DEF Open, Typed, CleanDbTypeOK

LEMMA WriteTyped ==
    ASSUME Typed, NEW r \in Runs, Write(r)
    PROVE  Typed'
  <1>1. off[r] \in Nat /\ out[r] \in Seq(added)
    BY DEF Typed, CleanDbTypeOK, FromAdded
  <1>2. off[r] + 1 \in 1 .. Len(out[r])
    BY <1>1, LenProperties DEF Write
  <1>3. out[r][off[r] + 1] \in added
    BY <1>1, <1>2, ElementOfSeq
  <1>4. disk' \in Seq(added \cup {Zero})
    <2>1. disk \in Seq(added \cup {Zero}) /\ off[r] + 1 \in Nat \ {0}
      BY <1>1 DEF Typed, FromAdded
    <2>2. WriteAt(disk, off[r] + 1, out[r][off[r] + 1]) \in Seq(added \cup {Zero})
      BY <1>3, <2>1, WriteAtType
    <2> QED BY <2>2 DEF Write
  <1>5. FromAdded'
    BY <1>4 DEF Write, Typed, FromAdded
  <1>6. off' \in [Runs -> Nat] /\ intact' \in [Runs -> BOOLEAN]
    BY WritesType DEF Write, Typed, CleanDbTypeOK
  <1> QED BY <1>5, <1>6, TypedNext DEF Write, Typed, CleanDbTypeOK

LEMMA NextTyped ==
    ASSUME Typed, [Next]_vars
    PROVE  Typed'
  <1>1. ASSUME NEW r \in Runs, Load(r) PROVE Typed'
    BY <1>1, LoadTyped
  <1>2. ASSUME NEW r \in Runs, Dumped(r) PROVE Typed'
    BY <1>2, EndsTyped DEF Dumped, Ended
  <1>3. ASSUME NEW r \in Runs, Gen(r) PROVE Typed'
    BY <1>3, AddDirTyped, CleanDbAssumption DEF Gen
  <1>4. ASSUME NEW r \in Runs, Add(r) PROVE Typed'
    BY <1>4, AddDirTyped, CleanDbAssumption DEF Add
  <1>5. ASSUME NEW r \in Runs, Rem(r) PROVE Typed'
    BY <1>5, RemTyped
  <1>6. ASSUME NEW r \in Runs, Clean(r) PROVE Typed'
    BY <1>6, CleanTyped
  <1>7. ASSUME NEW r \in Runs, Open(r) PROVE Typed'
    BY <1>7, OpenTyped
  <1>8. ASSUME NEW r \in Runs, Write(r) PROVE Typed'
    BY <1>8, WriteTyped
  <1>9. ASSUME NEW r \in Runs, Saved(r) PROVE Typed'
    BY <1>9, EndsTyped DEF Saved, Ended
  <1>10. ASSUME NEW r \in Runs, Stops(r) PROVE Typed'
    BY <1>10, EndsTyped DEF Stops, Ended
  <1>11. CASE UNCHANGED vars
    BY <1>11 DEF Typed, CleanDbTypeOK, FromAdded, vars, history
  <1> QED
    BY <1>1, <1>2, <1>3, <1>4, <1>5, <1>6, <1>7, <1>8, <1>9, <1>10, <1>11 DEF Next

LEMMA SpecTyped == CleanDbSpec => []Typed
  <1> QED BY InitTyped, NextTyped, PTL DEF CleanDbSpec

(***************************************************************************)
(* The type invariant: whatever is loaded from a torn or mixed file, a set *)
(* holds pairs of halves and never a hole (parse_hex, hashdb.rs:158-167).  *)
(***************************************************************************)
THEOREM DatabaseTyped == CleanDbSpec => []CleanDbTypeOK
  <1>1. Typed => CleanDbTypeOK
    BY DEF Typed
  <1> QED BY <1>1, SpecTyped, PTL

(***************************************************************************)
(* No file is known-good to any process that nobody has had hashed, for    *)
(* any number of processes that save, overlap and die (hashdb.rs:28-55).   *)
(***************************************************************************)
THEOREM NothingIsInvented == CleanDbSpec => []NothingInvented
  <1>1. Typed => NothingInvented
    <2> SUFFICES ASSUME Typed, NEW r \in Runs, NEW f \in KnownGood(db[r])
                 PROVE  f \in added
      BY DEF NothingInvented
    <2>1. <<f, f>> \in db[r]
      BY DEF KnownGood, HashOf
    <2>2. db[r] \in SUBSET (added \X added)
      BY DEF Typed, FromAdded
    <2> QED BY <2>1, <2>2
  <1> QED BY <1>1, SpecTyped, PTL

-----------------------------------------------------------------------------
(* Saving and loading: a set is read back from its own text, and from the  *)
(* beginning of that text a part of it.                                    *)

LEMMA LineOfHalves ==
    ASSUME NEW i \in Nat \ {0}
    PROVE  /\ ((2 * i - 1) + 1) \div 2 = i /\ (2 * i - 1) % 2 = 1
           /\ (2 * i + 1) \div 2 = i /\ (2 * i) % 2 = 0
  BY SMT

LEMMA PrefixParses ==
    ASSUME NEW S, Zero \notin S,
           NEW hashes \in SUBSET (S \X S), IsFiniteSet(hashes), NEW text \in Text(hashes),
           NEW file \in Seq(S \cup {Zero}), Len(file) <= Len(text),
           \A k \in 1 .. Len(file) : file[k] = text[k]
    PROVE  /\ ParseHex(file) \subseteq hashes
           /\ Len(file) = Len(text) => ParseHex(file) = hashes
  <1> DEFINE n == Cardinality(hashes)
  <1>1. n \in Nat /\ Len(file) \in Nat /\ Len(text) = 2 * n
    BY FS_CardinalityType, LenProperties, TextType
  <1>2. PICK s \in SetToSeqs(hashes) :
          /\ s \in [1 .. n -> hashes]
          /\ \A h \in hashes : \E i \in 1 .. n : s[i] = h
          /\ text = [k \in 1 .. (2 * n) |-> s[(k + 1) \div 2][IF k % 2 = 1 THEN 1 ELSE 2]]
    BY TextHasOrder
  <1>3. ASSUME NEW i \in 1 .. n
        PROVE  text[2 * i - 1] = s[i][1] /\ text[2 * i] = s[i][2]
    <2>1. 2 * i - 1 \in 1 .. (2 * n) /\ 2 * i \in 1 .. (2 * n)
      BY <1>1
    <2>2. text[2 * i - 1] = s[((2 * i - 1) + 1) \div 2][IF (2 * i - 1) % 2 = 1 THEN 1 ELSE 2]
      BY <1>2, <2>1
    <2>3. text[2 * i] = s[(2 * i + 1) \div 2][IF (2 * i) % 2 = 1 THEN 1 ELSE 2]
      BY <1>2, <2>1
    <2> QED BY <2>2, <2>3, LineOfHalves
  <1>4. ASSUME NEW i \in 1 .. n, 2 * i <= Len(file)
        PROVE  Hash(file, i) = s[i] /\ file[2 * i - 1] \in S /\ file[2 * i] \in S
    <2>1. 2 * i - 1 \in 1 .. Len(file) /\ 2 * i \in 1 .. Len(file)
      BY <1>1, <1>4
    <2>2. file[2 * i - 1] = s[i][1] /\ file[2 * i] = s[i][2]
      BY <1>3, <2>1
    <2>3. s[i] \in S \X S
      BY <1>2
    <2> QED BY <2>2, <2>3 DEF Hash
  <1>5. ParseHex(file) \subseteq hashes
    <2> SUFFICES ASSUME NEW i \in Lines(file) PROVE Hash(file, i) \in hashes
      BY DEF ParseHex
    <2>1. i \in 1 .. (Len(file) \div 2)
      BY DEF Lines
    <2>2. i \in 1 .. n /\ 2 * i <= Len(file)
      BY <1>1, <2>1, Halving
    <2> QED BY <1>2, <1>4, <2>2
  <1>6. ASSUME Len(file) = Len(text), NEW h \in hashes PROVE h \in ParseHex(file)
    <2>1. PICK i \in 1 .. n : s[i] = h
      BY <1>2
    <2>2. 2 * i <= Len(file)
      BY <1>1, <1>6
    <2>3. i \in 1 .. (Len(file) \div 2)
      BY <1>1, <1>6, Halving
    <2>4. file[2 * i - 1] # Zero /\ file[2 * i] # Zero
      BY <1>4, <2>2
    <2>5. i > 1 => file[2 * i - 2] # Zero
      <3> SUFFICES ASSUME i > 1 PROVE file[2 * i - 2] # Zero
        OBVIOUS
      <3>1. i - 1 \in 1 .. n /\ 2 * (i - 1) <= Len(file) /\ 2 * (i - 1) = 2 * i - 2
        BY <1>1, <2>2
      <3> QED BY <1>4, <3>1
    <2>6. i \in Lines(file)
      BY <2>3, <2>4, <2>5 DEF Lines
    <2> QED BY <1>4, <2>1, <2>2, <2>6 DEF ParseHex
  <1> QED BY <1>5, <1>6

LEMMA KnownGoodEdited ==
    ASSUME NEW hashes, NEW files \in SUBSET Files
    PROVE  /\ KnownGood(hashes \cup {HashOf(f) : f \in files}) = KnownGood(hashes) \cup files
           /\ KnownGood(hashes \ {HashOf(f) : f \in files}) = KnownGood(hashes) \ files
           /\ KnownGood({}) = {}
  <1>1. \A f \in Files : HashOf(f) \in {HashOf(g) : g \in files} <=> f \in files
    BY DEF HashOf
  <1> QED BY <1>1 DEF KnownGood

LEMMA KnownGoodMonotonic ==
    ASSUME NEW few, NEW many, few \subseteq many
    PROVE  KnownGood(few) \subseteq KnownGood(many)
  BY DEF KnownGood

-----------------------------------------------------------------------------
(* A run that read the file and has had it to itself since.                *)

(* What it has written is the beginning of its text.                       *)
Wrote(r) ==
    /\ out[r] \in Text(db[r])
    /\ off[r] <= Len(out[r])
    /\ Len(disk) = off[r]
    /\ \A k \in 1 .. off[r] : disk[k] = out[r][k]

(* Its set is what it means to leave, its writing is faithful, and the     *)
(* file is what it has left.                                               *)
Undisturbed(r) ==
    /\ stage[r] \in {"loaded", "edited", "writing"} => meant[r] = KnownGood(db[r])
    /\ stage[r] = "writing" => Wrote(r)
    /\ stage[r] = "stopped" => KnownGood(ParseHex(disk)) \subseteq meant[r]
    /\ stage[r] = "saved" => KnownGood(ParseHex(disk)) = meant[r]

Exact == \A r \in Runs : intact[r] => Undisturbed(r)

(* What stands in the file in the middle and at the end of its writing.    *)
LEMMA WroteParses ==
    ASSUME Typed, NEW r \in Runs, Wrote(r)
    PROVE  /\ ParseHex(disk) \subseteq db[r]
           /\ off[r] = Len(out[r]) => ParseHex(disk) = db[r]
  <1>1. Zero \notin added
    BY CleanDbAssumption DEF Typed, CleanDbTypeOK
  <1>2. db[r] \in SUBSET (added \X added) /\ disk \in Seq(added \cup {Zero})
    BY DEF Typed, FromAdded
  <1>3. IsFiniteSet(db[r])
    BY <1>2, FilesFinite DEF Typed
  <1>4. /\ out[r] \in Text(db[r])
        /\ Len(disk) <= Len(out[r])
        /\ \A k \in 1 .. Len(disk) : disk[k] = out[r][k]
    BY DEF Wrote
  <1>5. /\ ParseHex(disk) \subseteq db[r]
        /\ Len(disk) = Len(out[r]) => ParseHex(disk) = db[r]
    BY <1>1, <1>2, <1>3, <1>4, PrefixParses
  <1> QED BY <1>5 DEF Wrote

(* A run that only reads, edits or ends leaves the others as they were.    *)
LEMMA OthersUndisturbed ==
    ASSUME NEW r \in Runs, Typed, Exact, disk' = disk,
           NEW s \in Runs, s # r, intact'[s],
           intact'[s] = intact[s], stage'[s] = stage[s], db'[s] = db[s],
           out'[s] = out[s], off'[s] = off[s], meant'[s] = meant[s]
    PROVE  Undisturbed(s)'
  <1>1. Undisturbed(s)
    BY DEF Exact
  <1>2. Wrote(s) => Wrote(s)'
    BY DEF Wrote
  <1> QED BY <1>1, <1>2 DEF Undisturbed

LEMMA LoadExact ==
    ASSUME Typed, Exact, NEW r \in Runs, Load(r)
    PROVE  Exact'
  <1> SUFFICES ASSUME NEW s \in Runs, intact'[s] PROVE Undisturbed(s)'
    BY DEF Exact
  <1>1. CASE s # r
    BY <1>1, OthersUndisturbed DEF Load, Typed, CleanDbTypeOK
  <1>2. CASE s = r
    <2>1. PICK readable \in BOOLEAN :
            /\ db' = [db EXCEPT ![r] = IF readable THEN ParseHex(disk) ELSE {}]
            /\ intact' = [intact EXCEPT ![r] = readable]
      BY DEF Load
    <2>2. readable
      BY <1>2, <2>1 DEF Typed, CleanDbTypeOK
    <2>3. db'[r] = ParseHex(disk)
      BY <2>1, <2>2 DEF Typed, CleanDbTypeOK
    <2>4. stage'[r] = "loaded" /\ meant'[r] = KnownGood(ParseHex(disk))
      BY DEF Load, Typed, CleanDbTypeOK
    <2> QED BY <1>2, <2>3, <2>4 DEF Undisturbed, KnownGood
  <1> QED BY <1>1, <1>2

LEMMA EditedExact ==
    ASSUME Typed, Exact, NEW r \in Runs, NEW hashes, NEW files,
           Edited(r, hashes, files),
           meant[r] = KnownGood(db[r]) => files = KnownGood(hashes)
    PROVE  Exact'
  <1> SUFFICES ASSUME NEW s \in Runs, intact'[s] PROVE Undisturbed(s)'
    BY DEF Exact
  <1>1. CASE s # r
    BY <1>1, OthersUndisturbed DEF Edited, Typed, CleanDbTypeOK
  <1>2. CASE s = r
    <2>1. stage[r] = "loaded" /\ intact[r]
      BY <1>2 DEF Edited
    <2>2. meant[r] = KnownGood(db[r])
      BY <2>1 DEF Exact, Undisturbed
    <2>3. stage'[r] = "edited" /\ db'[r] = hashes /\ meant'[r] = files
      BY DEF Edited, Typed, CleanDbTypeOK
    <2>4. meant'[r] = KnownGood(db'[r])
      BY <2>2, <2>3
    <2> QED BY <1>2, <2>3, <2>4 DEF Undisturbed, KnownGood
  <1> QED BY <1>1, <1>2

LEMMA AddDirExact ==
    ASSUME Typed, Exact, NEW r \in Runs, NEW folder \in SUBSET Files, AddDir(r, folder)
    PROVE  Exact'
  <1>1. PICK files \in SUBSET folder :
          Edited(r, db[r] \cup {HashOf(f) : f \in files}, meant[r] \cup files)
    BY DEF AddDir
  <1> QED BY <1>1, KnownGoodEdited, EditedExact

LEMMA RemExact ==
    ASSUME Typed, Exact, NEW r \in Runs, Rem(r)
    PROVE  Exact'
  <1>1. PICK folder \in Folders :
          \E files \in SUBSET folder :
            Edited(r, db[r] \ {HashOf(f) : f \in files}, meant[r] \ files)
    BY DEF Rem
  <1>2. PICK files \in SUBSET folder :
          Edited(r, db[r] \ {HashOf(f) : f \in files}, meant[r] \ files)
    BY <1>1
  <1>3. files \in SUBSET Files
    BY CleanDbAssumption
  <1> QED BY <1>2, <1>3, KnownGoodEdited, EditedExact

LEMMA CleanExact ==
    ASSUME Typed, Exact, NEW r \in Runs, Clean(r)
    PROVE  Exact'
  <1>1. {} = KnownGood({})
    BY DEF KnownGood
  <1> QED BY <1>1, EditedExact DEF Clean

LEMMA OpenExact ==
    ASSUME Typed, Exact, NEW r \in Runs, Open(r)
    PROVE  Exact'
  <1> SUFFICES ASSUME NEW s \in Runs, intact'[s] PROVE Undisturbed(s)'
    BY DEF Exact
  <1>1. s = r /\ intact[r]
    BY DEF Open, Writes
  <1>2. stage[r] = "edited" /\ meant[r] = KnownGood(db[r])
    BY <1>1 DEF Open, Exact, Undisturbed
  <1>3. PICK text \in Text(db[r]) : out' = [out EXCEPT ![r] = text]
    BY DEF Open
  <1>4. /\ stage'[r] = "writing" /\ db' = db /\ meant' = meant
        /\ out'[r] = text /\ off'[r] = 0 /\ disk' = <<>>
    BY <1>3 DEF Open, Typed, CleanDbTypeOK
  <1>5. text \in Seq(added)
    BY TextType, FilesFinite DEF Typed, FromAdded
  <1>6. Len(text) \in Nat
    BY <1>5, LenProperties
  <1>7. Wrote(r)'
    BY <1>3, <1>4, <1>6, EmptySeq DEF Wrote
  <1>8. KnownGood(db[r])' = KnownGood(db[r])
    BY <1>4 DEF KnownGood
  <1> QED BY <1>1, <1>2, <1>4, <1>7, <1>8 DEF Undisturbed

(* One more half line at the end of the file.                              *)
LEMMA WriteAtEnd ==
    ASSUME NEW S, NEW file \in Seq(S), NEW half
    PROVE  LET longer == WriteAt(file, Len(file) + 1, half)
           IN  /\ Len(longer) = Len(file) + 1
               /\ \A k \in 1 .. Len(file) : longer[k] = file[k]
               /\ longer[Len(file) + 1] = half
  <1> DEFINE n == Len(file)
             longer == WriteAt(file, n + 1, half)
  <1>1. n \in Nat
    BY LenProperties
  <1>2. longer = [k \in 1 .. (n + 1) |-> IF k = n + 1 THEN half ELSE IF k <= n THEN file[k] ELSE Zero]
    BY <1>1 DEF WriteAt
  <1>3. longer \in Seq({longer[k] : k \in 1 .. (n + 1)})
    BY <1>1, <1>2, SeqDef
  <1>4. Len(longer) = n + 1
    BY <1>1, <1>2, <1>3, LenProperties
  <1> QED BY <1>1, <1>2, <1>4

LEMMA WriteExact ==
    ASSUME Typed, Exact, NEW r \in Runs, Write(r)
    PROVE  Exact'
  <1> SUFFICES ASSUME NEW s \in Runs, intact'[s] PROVE Undisturbed(s)'
    BY DEF Exact
  <1>1. s = r /\ intact[r]
    BY DEF Write, Writes
  <1>2. stage[r] = "writing" /\ meant[r] = KnownGood(db[r]) /\ Wrote(r)
    BY <1>1 DEF Write, Exact, Undisturbed
  <1>3. /\ stage' = stage /\ db' = db /\ meant' = meant /\ out' = out
        /\ off'[r] = off[r] + 1 /\ off[r] \in Nat
    BY DEF Write, Typed, CleanDbTypeOK
  <1>4. /\ Len(disk') = off[r] + 1
        /\ \A k \in 1 .. off[r] : disk'[k] = disk[k]
        /\ disk'[off[r] + 1] = out[r][off[r] + 1]
    <2>1. disk \in Seq(added \cup {Zero}) /\ Len(disk) = off[r]
      BY <1>2 DEF Typed, FromAdded, Wrote
    <2>2. disk' = WriteAt(disk, Len(disk) + 1, out[r][off[r] + 1])
      BY <2>1 DEF Write
    <2> QED BY <2>1, <2>2, WriteAtEnd
  <1>5. out[r] \in Seq(added) /\ Len(out[r]) \in Nat
    BY LenProperties DEF Typed, FromAdded
  <1>6. off[r] + 1 <= Len(out[r])
    BY <1>3, <1>5 DEF Write
  <1>7. \A k \in 1 .. (off[r] + 1) : disk'[k] = out[r][k]
    <2> SUFFICES ASSUME NEW k \in 1 .. (off[r] + 1) PROVE disk'[k] = out[r][k]
      OBVIOUS
    <2>1. CASE k = off[r] + 1
      BY <1>4, <2>1
    <2>2. CASE k # off[r] + 1
      <3>1. k \in 1 .. off[r]
        BY <1>3, <2>2
      <3>2. disk[k] = out[r][k]
        BY <1>2, <3>1 DEF Wrote
      <3> QED BY <1>4, <3>1, <3>2
    <2> QED BY <2>1, <2>2
  <1>8. Wrote(r)'
    BY <1>2, <1>3, <1>4, <1>6, <1>7 DEF Wrote
  <1>9. KnownGood(db[r])' = KnownGood(db[r])
    BY <1>3 DEF KnownGood
  <1> QED BY <1>1, <1>2, <1>3, <1>8, <1>9 DEF Undisturbed

LEMMA EndsExact ==
    ASSUME Typed, Exact, NEW r \in Runs, NEW how \in Ended,
           Ends(r, how), UNCHANGED <<disk, history>>,
           how = "stopped" => stage[r] = "writing",
           how = "saved" => stage[r] = "writing" /\ off[r] = Len(out[r])
    PROVE  Exact'
  <1> SUFFICES ASSUME NEW s \in Runs, intact'[s] PROVE Undisturbed(s)'
    BY DEF Exact
  <1>1. CASE s # r
    BY <1>1, OthersUndisturbed DEF Ends, history, Typed, CleanDbTypeOK
  <1>2. CASE s = r
    <2>1. Undisturbed(r) /\ stage'[r] = how /\ disk' = disk /\ meant' = meant
      BY <1>2 DEF Exact, Ends, history, Typed, CleanDbTypeOK
    <2>2. ParseHex(disk)' = ParseHex(disk)
      BY <2>1 DEF ParseHex, Lines, Hash
    <2>3. stage[r] = "writing" => KnownGood(ParseHex(disk)) \subseteq meant[r]
      BY <2>1, WroteParses, KnownGoodMonotonic DEF Undisturbed
    <2>4. stage[r] = "writing" /\ off[r] = Len(out[r]) => KnownGood(ParseHex(disk)) = meant[r]
      BY <2>1, WroteParses DEF Undisturbed
    <2>5. KnownGood(ParseHex(disk))' = KnownGood(ParseHex(disk))
      BY <2>2 DEF KnownGood
    <2> QED BY <1>2, <2>1, <2>3, <2>4, <2>5 DEF Undisturbed, Ended
  <1> QED BY <1>1, <1>2

LEMMA NextExact ==
    ASSUME Typed, Exact, [Next]_vars
    PROVE  Exact'
  <1>1. ASSUME NEW r \in Runs, Load(r) PROVE Exact'
    BY <1>1, LoadExact
  <1>2. ASSUME NEW r \in Runs, Dumped(r) PROVE Exact'
    BY <1>2, EndsExact DEF Dumped, Ended
  <1>3. ASSUME NEW r \in Runs, Gen(r) PROVE Exact'
    BY <1>3, AddDirExact, CleanDbAssumption DEF Gen
  <1>4. ASSUME NEW r \in Runs, Add(r) PROVE Exact'
    BY <1>4, AddDirExact, CleanDbAssumption DEF Add
  <1>5. ASSUME NEW r \in Runs, Rem(r) PROVE Exact'
    BY <1>5, RemExact
  <1>6. ASSUME NEW r \in Runs, Clean(r) PROVE Exact'
    BY <1>6, CleanExact
  <1>7. ASSUME NEW r \in Runs, Open(r) PROVE Exact'
    BY <1>7, OpenExact
  <1>8. ASSUME NEW r \in Runs, Write(r) PROVE Exact'
    BY <1>8, WriteExact
  <1>9. ASSUME NEW r \in Runs, Saved(r) PROVE Exact'
    BY <1>9, EndsExact DEF Saved, Ended
  <1>10. ASSUME NEW r \in Runs, Stops(r) PROVE Exact'
    BY <1>10, EndsExact DEF Stops, Ended
  <1>11. CASE UNCHANGED vars
    BY <1>11 DEF Exact, Undisturbed, Wrote, vars, history, KnownGood, ParseHex, Lines, Hash
  <1> QED
    BY <1>1, <1>2, <1>3, <1>4, <1>5, <1>6, <1>7, <1>8, <1>9, <1>10, <1>11 DEF Next

LEMMA SpecExact == CleanDbSpec => [](Typed /\ Exact)
  <1>1. Init => Typed /\ Exact
    BY InitTyped DEF Init, Exact
  <1>2. Typed /\ Exact /\ [Next]_vars => Typed' /\ Exact'
    BY NextTyped, NextExact
  <1> QED BY <1>1, <1>2, PTL DEF CleanDbSpec

(***************************************************************************)
(* After a save that nobody disturbed the file holds exactly what was      *)
(* meant: load undoes save (hashdb.rs:28-34 and 44-55), for any set of     *)
(* hashes, in any order of its lines, whatever other runs read or edit.    *)
(***************************************************************************)
THEOREM SaveIsExact == CleanDbSpec => []SavedIsExact
  <1>1. Typed /\ Exact => SavedIsExact
    BY DEF Exact, Undisturbed, SavedIsExact
  <1> QED BY <1>1, SpecExact, PTL

(***************************************************************************)
(* A save that died in the middle, at whatever half line, has only lost    *)
(* entries: what was removed stays removed (hashdb.rs:53 and 71-79).       *)
(***************************************************************************)
THEOREM TornSaveOnlyLoses == CleanDbSpec => []TornOnlyLoses
  <1>1. Typed /\ Exact => TornOnlyLoses
    BY WroteParses, KnownGoodMonotonic DEF Exact, Undisturbed, TornOnlyLoses
  <1> QED BY <1>1, SpecExact, PTL
=============================================================================
