------------------------ MODULE InputSelectionProofs ------------------------
(***************************************************************************)
(* Proofs of the properties of InputSelection, for command lines of any    *)
(* length, any number of channels and any files.                           *)
(***************************************************************************)
EXTENDS InputSelection, FiniteSetTheorems, WellFoundedInduction, TLAPS

(***************************************************************************)
(* What the arguments before the next one have put into given.             *)
(***************************************************************************)
Flags == PairFlags \union PlainFlags

Before(f) == {i \in Uses(f) : i < next}

PairInv(f) ==
  /\ DOMAIN given[f] = {line.args[i].channel : i \in Before(f)}
  /\ \A i \in Before(f) :
       /\ line.args[i].channel # NoName
       /\ line.args[i].path # NoName
       /\ given[f][line.args[i].channel] = line.args[i].path
  /\ \A i, j \in Before(f) : line.args[i].channel = line.args[j].channel => i = j

PlainInv(f) ==
  \/ Before(f) = {} /\ given[f] = NoName
  \/ \E i \in Before(f) : given[f] = line.args[i].path /\ \A j \in Before(f) : j <= i

ParsedInv ==
  /\ next \in 1..(Len(line.args) + 1)
  /\ given = [f \in Flags |-> given[f]]
  /\ \A i \in DOMAIN line.args : i < next => line.args[i].flag \in Flags
  /\ \A f \in PairFlags : PairInv(f)
  /\ \A f \in PlainFlags : PlainInv(f)

(* All arguments have been read, and nothing is missing.                   *)
CompleteInv ==
  /\ line.command = "import"
  /\ next = Len(line.args) + 1
  /\ Required
  /\ given["database-url"] \in URLs

TargetInv ==
  LET mapping == FileAt(given["mapping"])
      config == FileAt(given["target-config"])
  IN /\ mapping # Unreadable
     /\ mapping.kind = "mapping"
     /\ Decodable(config)
     /\ target = Decode(config)
     /\ target.channel = mapping.network
     /\ EverySnapshotPaired

SourceFits(source) ==
  /\ source.channel \in DOMAIN given["snapshot"]
  /\ Fits(source.channel, FileAt(given["snapshot"][source.channel]))
  /\ source.config = given["source-config"][source.channel]

SourcesInv ==
  /\ sources \in Seq(ToSet(sources))
  /\ \A i \in DOMAIN sources : SourceFits(sources[i])
  /\ \A i, j \in DOMAIN sources : sources[i].channel = sources[j].channel => i = j

SelectionInv ==
  /\ line \in Lines
  /\ pc \in {"flags", "files", "pairing", "paired", "failed"}
  /\ pc # "failed" => ParsedInv
  /\ pc \in {"flags", "files"} => sources = <<>>
  /\ pc \in {"files", "pairing", "paired"} => CompleteInv
  /\ pc \in {"pairing", "paired"} => TargetInv /\ SourcesInv
  /\ pc = "paired" => Unpaired = {}
  /\ pc = "failed" => ~Consistent

-----------------------------------------------------------------------------
LEMMA SmallestChannel ==
  ASSUME NEW S \in SUBSET Nat, S # {}
  PROVE  \E x \in S : \A y \in S : x <= y
<1> DEFINE R == OpToRel(<, Nat)
<1>1. IsWellFoundedOn(R, Nat)
  BY NatLessThanWellFounded
<1>2. PICK x \in S : \A y \in S : ~(<<y, x>> \in R)
  BY <1>1, WFMin
<1>3. \A y \in S : ~(y < x)
  BY <1>2 DEF OpToRel
<1> QED
  BY <1>3

(* The arguments of a command line have the positions 1 to their number.   *)
LEMMA Positions ==
  ASSUME line \in Lines
  PROVE  /\ Len(line.args) \in Nat /\ DOMAIN line.args = 1..Len(line.args)
         /\ \A i \in DOMAIN line.args :
              /\ line.args[i].channel \in Nat \union {NoName}
              /\ line.args[i].flag # "database-url" => line.args[i].path \in Paths \union {NoName}
BY LinesAssumption

LEMMA FlagsAre ==
  /\ Flags = {"snapshot", "source-config", "mapping", "target-config", "database-url"}
  /\ PairFlags = {"snapshot", "source-config"}
  /\ PlainFlags = {"mapping", "target-config", "database-url"}
  /\ PairFlags \subseteq Flags /\ PlainFlags \subseteq Flags
  /\ \A f \in PairFlags : f \notin PlainFlags
BY DEF Flags, PairFlags, PlainFlags

LEMMA PutAdds ==
  ASSUME NEW F, NEW k, NEW v
  PROVE  /\ DOMAIN Put(F, k, v) = DOMAIN F \union {k}
         /\ Put(F, k, v)[k] = v
         /\ \A x \in DOMAIN F : x # k => Put(F, k, v)[x] = F[x]
BY DEF Put

(* The flags of a channel that have been read are as many as its channels. *)
LEMMA OncePerChannel ==
  ASSUME NEW f, line \in Lines, PairInv(f)
  PROVE  /\ IsFiniteSet(Before(f)) /\ IsFiniteSet(DOMAIN given[f])
         /\ Cardinality(DOMAIN given[f]) = Cardinality(Before(f))
         /\ DOMAIN given[f] \subseteq Nat
<1> DEFINE b == [i \in Before(f) |-> line.args[i].channel]
<1>1. IsFiniteSet(Before(f))
  <2>1. IsFiniteSet(1..Len(line.args))
    BY Positions, FS_Interval
  <2>2. Before(f) \in SUBSET (1..Len(line.args))
    BY Positions DEF Before, Uses
  <2> QED
    BY <2>1, <2>2, FS_Subset
<1>2. b \in Bijection(Before(f), DOMAIN given[f])
  <2>1. b \in Surjection(Before(f), DOMAIN given[f])
    BY DEF Surjection, PairInv
  <2>2. b \in Injection(Before(f), DOMAIN given[f])
    BY <2>1 DEF Surjection, Injection, IsInjective, PairInv
  <2> QED
    BY <2>1, <2>2 DEF Bijection
<1>3. DOMAIN given[f] \subseteq Nat
  BY Positions DEF PairInv, Before, Uses
<1> QED
  BY <1>1, <1>2, <1>3, FS_Bijection DEF ExistsBijection

-----------------------------------------------------------------------------
(***************************************************************************)
(* Parsing.                                                                *)
(***************************************************************************)
LEMMA ParsingStarts ==
  ASSUME Init
  PROVE  SelectionInv
<1>1. /\ line \in Lines /\ pc = "flags" /\ next = 1 /\ given = NothingGiven /\ sources = <<>>
  BY DEF Init
<1>2. \A f \in Flags : Before(f) = {}
  BY <1>1, Positions DEF Before, Uses
<1>3. given = [f \in Flags |-> given[f]]
  BY <1>1 DEF NothingGiven, Flags
<1>4. \A f \in PairFlags : PairInv(f)
  <2> SUFFICES ASSUME NEW f \in PairFlags PROVE PairInv(f)
    OBVIOUS
  <2>1. Before(f) = {} /\ given[f] = Empty
    BY <1>1, <1>2, FlagsAre DEF NothingGiven
  <2>2. DOMAIN given[f] = {}
    BY <2>1 DEF Empty
  <2> QED
    BY <2>1, <2>2 DEF PairInv
<1>5. \A f \in PlainFlags : PlainInv(f)
  BY <1>1, <1>2, FlagsAre DEF NothingGiven, PlainInv
<1>6. ParsedInv
  BY <1>1, <1>3, <1>4, <1>5, Positions DEF ParsedInv
<1> QED
  BY <1>1, <1>6 DEF SelectionInv

LEMMA ParseArgumentKeeps ==
  ASSUME SelectionInv, ParseArgument
  PROVE  SelectionInv'
<1> DEFINE arg == line.args[next]
           n == Len(line.args)
<1>1. /\ line \in Lines /\ line' = line /\ pc = "flags" /\ pc' = pc /\ next' = next + 1
      /\ sources' = sources /\ sources = <<>> /\ next \in DOMAIN line.args /\ Understood(arg)
      /\ given' = [given EXCEPT ![arg.flag] =
                     IF arg.flag \in PairFlags THEN Put(@, arg.channel, arg.path) ELSE arg.path]
      /\ ParsedInv
  BY DEF SelectionInv, ParseArgument, Argument
<1>2. n \in Nat /\ DOMAIN line.args = 1..n /\ next \in 1..n
  BY <1>1, Positions
<1> HIDE DEF arg, n
<1>3. arg.flag \in Flags
  BY <1>1 DEF Understood, Flags
<1>4. next' \in 1..(n + 1)
  BY <1>1, <1>2
<1>5. \A f : Before(f)' = Before(f) \union (IF f = arg.flag THEN {next} ELSE {})
  <2> SUFFICES ASSUME NEW f PROVE Before(f)' = Before(f) \union (IF f = arg.flag THEN {next} ELSE {})
    OBVIOUS
  <2>1. Before(f) = {i \in 1..n : line.args[i].flag = f /\ i < next}
    BY <1>2 DEF Before, Uses
  <2>2. Before(f)' = {i \in 1..n : line.args[i].flag = f /\ i < next + 1}
    BY <1>1, <1>2 DEF Before, Uses
  <2>3. \A i \in 1..n : i < next + 1 <=> i < next \/ i = next
    BY <1>2
  <2> QED
    BY <1>2, <2>1, <2>2, <2>3 DEF arg
<1>6. /\ given' = [f \in Flags |-> given'[f]]
      /\ \A f \in Flags : f # arg.flag => given'[f] = given[f]
      /\ given'[arg.flag] = IF arg.flag \in PairFlags THEN Put(given[arg.flag], arg.channel, arg.path) ELSE arg.path
  BY <1>1, <1>3 DEF ParsedInv
<1>7. \A i \in 1..n : i < next' => line.args[i].flag \in Flags
  <2>1. \A i \in 1..n : i < next + 1 => i < next \/ i = next
    BY <1>2
  <2> QED
    BY <1>1, <1>2, <1>3, <2>1 DEF ParsedInv, arg
<1>8. ASSUME NEW f \in PairFlags PROVE PairInv(f)'
  <2>1. PairInv(f) /\ f \in Flags
    BY <1>1, FlagsAre DEF ParsedInv
  <2>2. CASE f # arg.flag
    <3>1. Before(f)' = Before(f) /\ given'[f] = given[f]
      BY <1>5, <1>6, <2>1, <2>2
    <3> QED
      BY <1>1, <2>1, <3>1 DEF PairInv
  <2>3. CASE f = arg.flag
    <3>1. /\ Before(f)' = Before(f) \union {next} /\ given'[f] = Put(given[f], arg.channel, arg.path)
          /\ next \notin Before(f)
      <4>1. next \notin Before(f)
        BY <1>2 DEF Before
      <4>2. Before(f)' = Before(f) \union {next}
        BY <1>5, <2>3
      <4>3. arg.flag \in PairFlags
        BY <2>3
      <4>4. given'[arg.flag] = Put(given[arg.flag], arg.channel, arg.path)
        BY <1>6, <4>3
      <4> QED
        BY <2>3, <4>1, <4>2, <4>4
    <3>2. arg.channel # NoName /\ arg.path # NoName /\ arg.channel \notin DOMAIN given[f]
      BY <1>1, <2>3, FlagsAre DEF Understood
    <3>3. DOMAIN given'[f] = DOMAIN given[f] \union {arg.channel}
          /\ given'[f][arg.channel] = arg.path
          /\ \A x \in DOMAIN given[f] : given'[f][x] = given[f][x]
      <4> DEFINE F == given[f]
                 k == arg.channel
      <4>1. given'[f] = Put(F, k, arg.path) /\ k \notin DOMAIN F
        BY <3>1, <3>2
      <4> HIDE DEF F, k
      <4>2. /\ DOMAIN Put(F, k, arg.path) = DOMAIN F \union {k}
            /\ Put(F, k, arg.path)[k] = arg.path
            /\ \A x \in DOMAIN F : x # k => Put(F, k, arg.path)[x] = F[x]
        BY DEF Put
      <4>3. DOMAIN given'[f] = DOMAIN F \union {k} /\ given'[f][k] = arg.path
            /\ \A x \in DOMAIN F : given'[f][x] = F[x]
        BY <4>1, <4>2
      <4> QED
        BY <4>3 DEF F, k
    <3>4. \A i \in Before(f) : line.args[i].channel \in DOMAIN given[f]
      BY <2>1 DEF PairInv
    <3>5. DOMAIN given'[f] = {line.args[i].channel : i \in Before(f)'}
      BY <2>1, <3>1, <3>3 DEF PairInv, arg
    <3>6. \A i \in Before(f)' :
             /\ line.args[i].channel # NoName
             /\ line.args[i].path # NoName
             /\ given'[f][line.args[i].channel] = line.args[i].path
      BY <2>1, <3>1, <3>2, <3>3, <3>4 DEF PairInv, arg
    <3>7. \A i, j \in Before(f)' : line.args[i].channel = line.args[j].channel => i = j
      BY <2>1, <3>1, <3>2, <3>4 DEF PairInv, arg
    <3> QED
      BY <1>1, <3>5, <3>6, <3>7 DEF PairInv
  <2> QED
    BY <2>2, <2>3
<1>9. ASSUME NEW f \in PlainFlags PROVE PlainInv(f)'
  <2>1. PlainInv(f) /\ f \in Flags /\ f \notin PairFlags
    BY <1>1, FlagsAre DEF ParsedInv
  <2>2. CASE f # arg.flag
    <3>1. Before(f)' = Before(f) /\ given'[f] = given[f]
      BY <1>5, <1>6, <2>1, <2>2
    <3> QED
      BY <1>1, <2>1, <3>1 DEF PlainInv
  <2>3. CASE f = arg.flag
    <3>1. Before(f)' = Before(f) \union {next} /\ given'[f] = line'.args[next].path
      BY <1>1, <1>5, <1>6, <2>1, <2>3 DEF arg
    <3>2. \A j \in Before(f)' : j <= next
      <4>1. \A j \in Before(f) : j \in 1..n /\ j < next
        BY <1>2 DEF Before, Uses
      <4> QED
        BY <1>2, <3>1, <4>1
    <3> QED
      BY <3>1, <3>2 DEF PlainInv
  <2> QED
    BY <2>2, <2>3
<1>10. ParsedInv'
  BY <1>1, <1>2, <1>4, <1>6, <1>7, <1>8, <1>9 DEF ParsedInv, n
<1> QED
  BY <1>1, <1>10 DEF SelectionInv

LEMMA ConsistencyStays ==
  ASSUME line' = line
  PROVE  Consistent' <=> Consistent
BY DEF Consistent, LastOf, Args, Uses

LEMMA ParsedStays ==
  ASSUME ParsedInv, UNCHANGED <<line, next, given>>
  PROVE  ParsedInv'
<1>1. line' = line /\ next' = next /\ given' = given
  OBVIOUS
<1>2. \A f : Before(f)' = Before(f)
  BY <1>1 DEF Before, Uses
<1>3. ASSUME NEW f \in PairFlags PROVE PairInv(f)'
  <2>1. PairInv(f)
    BY DEF ParsedInv
  <2> QED
    BY <1>1, <1>2, <2>1 DEF PairInv
<1>4. ASSUME NEW f \in PlainFlags PROVE PlainInv(f)'
  <2>1. PlainInv(f)
    BY DEF ParsedInv
  <2> QED
    BY <1>1, <1>2, <2>1 DEF PlainInv
<1> QED
  BY <1>1, <1>3, <1>4 DEF ParsedInv

LEMMA FailKeeps ==
  ASSUME SelectionInv, Fail, ~Consistent
  PROVE  SelectionInv'
<1>1. line' = line /\ pc' = "failed"
  BY DEF Fail
<1>2. ~Consistent'
  BY <1>1, ConsistencyStays
<1> QED
  BY <1>1, <1>2 DEF SelectionInv

LEMMA ConsistentArguments ==
  ASSUME Consistent
  PROVE  /\ line.command = "import"
         /\ \A i \in DOMAIN line.args :
              /\ line.args[i].flag \in Flags
              /\ line.args[i].flag \in PairFlags => line.args[i].channel # NoName /\ line.args[i].path # NoName
         /\ \A i, j \in DOMAIN line.args :
              /\ line.args[i].flag \in PairFlags /\ line.args[i].flag = line.args[j].flag
              /\ line.args[i].channel = line.args[j].channel
              => i = j
BY DEF Consistent, Flags, Args, Uses

(* A command line that is not understood is not consistent.                *)
LEMMA ParsingFailsKeeps ==
  ASSUME SelectionInv, ParsingFails
  PROVE  SelectionInv'
<1>1. Fail /\ pc = "flags" /\ ParsedInv
  BY DEF ParsingFails, SelectionInv
<1>2. ~Consistent
  <2> SUFFICES ASSUME Consistent PROVE FALSE
    OBVIOUS
  <2> DEFINE f == line.args[next].flag
  <2>1. next \in DOMAIN line.args /\ ~Understood(line.args[next])
    BY ConsistentArguments DEF ParsingFails, Argument
  <2>2. f \in Flags /\ f \notin PlainFlags
    BY <2>1, ConsistentArguments DEF Understood
  <2>3. f \in PairFlags /\ line.args[next].channel # NoName /\ line.args[next].path # NoName
    BY <2>1, <2>2, ConsistentArguments DEF Flags
  <2>4. line.args[next].channel \in DOMAIN given[f]
    BY <2>1, <2>3 DEF Understood
  <2>5. PICK i \in Before(f) : line.args[i].channel = line.args[next].channel
    <3> HIDE DEF f
    <3>1. PairInv(f)
      BY <1>1, <2>3 DEF ParsedInv
    <3> QED
      BY <2>4, <3>1 DEF PairInv
  <2>6. i \in DOMAIN line.args /\ line.args[i].flag = f /\ i < next
    BY <2>5 DEF Before, Uses
  <2>7. i = next
    BY <2>1, <2>3, <2>5, <2>6, ConsistentArguments
  <2>8. next \in Nat
    BY <1>1, Positions DEF ParsedInv, SelectionInv
  <2> QED
    BY <2>6, <2>7, <2>8
<1> QED
  BY <1>1, <1>2, FailKeeps

(***************************************************************************)
(* When all arguments have been read, given holds what the line says.      *)
(***************************************************************************)
LEMMA AllRead ==
  ASSUME line \in Lines, ParsedInv, next = Len(line.args) + 1
  PROVE  /\ \A f : Before(f) = Uses(f)
         /\ \A i \in DOMAIN line.args : line.args[i].flag \in Flags
<1>1. Len(line.args) \in Nat /\ DOMAIN line.args = 1..Len(line.args)
  BY Positions
<1>2. \A i \in DOMAIN line.args : i < next
  BY <1>1
<1> QED
  BY <1>2 DEF Before, Uses, ParsedInv

LEMMA PlainRead ==
  ASSUME line \in Lines, ParsedInv, next = Len(line.args) + 1, NEW f \in PlainFlags
  PROVE  /\ LastOf(f) = 0 => given[f] = NoName
         /\ LastOf(f) # 0 => LastOf(f) \in Uses(f) /\ given[f] = line.args[LastOf(f)].path
<1>1. PlainInv(f) /\ Before(f) = Uses(f)
  BY AllRead DEF ParsedInv
<1>2. Uses(f) \subseteq Nat \ {0}
  BY Positions DEF Uses
<1>3. CASE Uses(f) = {}
  <2>1. LastOf(f) = 0
    <3>1. Uses(f) \union {0} = {0}
      BY <1>3
    <3>2. Max({0}) = 0
      BY DEF Max
    <3> QED
      BY <3>1, <3>2 DEF LastOf
  <2> QED
    BY <1>1, <1>3, <2>1 DEF PlainInv
<1>4. CASE Uses(f) # {}
  <2>1. PICK i \in Uses(f) : given[f] = line.args[i].path /\ \A j \in Uses(f) : j <= i
    BY <1>1, <1>4 DEF PlainInv
  <2>2. LastOf(f) = i
    <3> DEFINE S == Uses(f) \union {0}
    <3>1. i \in S /\ S \subseteq Nat /\ \A j \in S : i >= j
      BY <1>2, <2>1
    <3> HIDE DEF S
    <3>2. Max(S) = i
      <4>1. Max(S) \in S /\ \A j \in S : Max(S) >= j
        BY <3>1 DEF Max
      <4> DEFINE m == Max(S)
      <4>2. m \in Nat /\ i \in Nat /\ m >= i /\ i >= m
        BY <3>1, <4>1
      <4> HIDE DEF m
      <4>3. m = i
        BY <4>2
      <4> QED
        BY <4>3 DEF m
    <3> QED
      BY <3>2 DEF LastOf, S
  <2> QED
    BY <1>2, <2>1, <2>2
<1> QED
  BY <1>3, <1>4

LEMMA PairsRead ==
  ASSUME line \in Lines, ParsedInv, next = Len(line.args) + 1, NEW f \in PairFlags
  PROVE  /\ DOMAIN given[f] = {a.channel : a \in Args(f)}
         /\ \A a \in Args(f) : given[f][a.channel] = a.path /\ a.channel # NoName /\ a.path # NoName
         /\ \A c \in DOMAIN given[f] : \E a \in Args(f) : a.channel = c /\ a.path = given[f][c]
<1>1. PairInv(f) /\ Before(f) = Uses(f)
  BY AllRead DEF ParsedInv
<1>2. \A i \in Uses(f) : line.args[i] \in Args(f)
  BY DEF Args
<1>3. \A a \in Args(f) : \E i \in Uses(f) : a = line.args[i]
  BY DEF Args
<1>4. DOMAIN given[f] = {line.args[i].channel : i \in Uses(f)}
  BY <1>1 DEF PairInv
<1>5. \A a \in Args(f) : given[f][a.channel] = a.path /\ a.channel # NoName /\ a.path # NoName
  BY <1>1, <1>3 DEF PairInv
<1>6. DOMAIN given[f] = {a.channel : a \in Args(f)}
  BY <1>2, <1>3, <1>4
<1> QED
  BY <1>5, <1>6

LEMMA ParsingEndsKeeps ==
  ASSUME SelectionInv, ParsingEnds
  PROVE  SelectionInv'
<1>1. pc = "flags" /\ ParsedInv /\ line \in Lines /\ line.command = "import" /\ sources = <<>>
  BY DEF ParsingEnds, SelectionInv
<1>2. next = Len(line.args) + 1
  <2>1. next \notin DOMAIN line.args /\ next \in 1..(Len(line.args) + 1)
    BY <1>1 DEF ParsingEnds, ParsedInv
  <2> QED
    BY <1>1, <2>1, Positions
<1>3. CASE Required /\ given["database-url"] \in URLs
  <2>1. pc' = "files" /\ UNCHANGED <<line, next, given, target, sources>>
    BY <1>3 DEF ParsingEnds
  <2>2. ParsedInv' /\ CompleteInv'
    BY <1>1, <1>2, <1>3, <2>1, ParsedStays DEF CompleteInv, Required
  <2> QED
    BY <1>1, <2>1, <2>2 DEF SelectionInv
<1>4. CASE ~(Required /\ given["database-url"] \in URLs)
  <2>1. Fail
    BY <1>4 DEF ParsingEnds
  <2>2. ~Consistent
    <3> SUFFICES ASSUME Consistent PROVE FALSE
      OBVIOUS
    <3>1. \A f \in PlainFlags : given[f] # NoName
      BY <1>1, <1>2, PlainRead DEF Consistent
    <3>2. given["database-url"] \in URLs
      BY <1>1, <1>2, PlainRead, FlagsAre DEF Consistent
    <3>3. \A f \in PairFlags : DOMAIN given[f] # {}
      <4>1. Args("snapshot") # {} /\ Args("source-config") # {}
        BY DEF Consistent
      <4>2. \A f \in PairFlags : Args(f) # {}
        BY <4>1, FlagsAre
      <4> QED
        BY <1>1, <1>2, <4>2, PairsRead
    <3> QED
      BY <1>4, <3>1, <3>2, <3>3 DEF Required
  <2> QED
    BY <2>1, <2>2, FailKeeps
<1> QED
  BY <1>3, <1>4
-----------------------------------------------------------------------------
(***************************************************************************)
(* The target configuration.                                               *)
(***************************************************************************)
LEMMA ConsistentTarget ==
  ASSUME line \in Lines, ParsedInv, next = Len(line.args) + 1, Consistent
  PROVE  LET mapping == FileAt(given["mapping"])
         IN  /\ mapping # Unreadable /\ mapping.kind = "mapping" /\ mapping.network # NoName
             /\ OneConfiguration(FileAt(given["target-config"]), mapping.network)
<1>1. \A f \in PlainFlags : given[f] = line.args[LastOf(f)].path
  BY PlainRead DEF Consistent
<1>2. given["mapping"] = line.args[LastOf("mapping")].path
      /\ given["target-config"] = line.args[LastOf("target-config")].path
  BY <1>1, FlagsAre
<1> QED
  BY <1>2 DEF Consistent

LEMMA ConfigurationDecodes ==
  ASSUME NEW file, NEW channel, channel # NoName
  PROVE  OneConfiguration(file, channel) <=> Decodable(file) /\ Decode(file).channel = channel
BY DEF OneConfiguration, Decodable, Decode

LEMMA ReadTargetKeeps ==
  ASSUME SelectionInv, ReadTarget
  PROVE  SelectionInv'
<1> DEFINE mapping == FileAt(given["mapping"])
           config == FileAt(given["target-config"])
           Right == /\ mapping # Unreadable
                    /\ mapping.kind = "mapping"
                    /\ Decodable(config)
                    /\ Decode(config).channel = mapping.network
                    /\ EverySnapshotPaired
<1>1. pc = "files" /\ ParsedInv /\ line \in Lines /\ CompleteInv /\ sources = <<>> /\ next = Len(line.args) + 1
  BY DEF ReadTarget, SelectionInv, CompleteInv
<1>2. CASE Right
  <2>1. pc' = "pairing" /\ target' = Decode(config) /\ UNCHANGED <<line, next, given, sources>>
    BY <1>2 DEF ReadTarget
  <2>2. ParsedInv' /\ CompleteInv'
    BY <1>1, <2>1, ParsedStays DEF CompleteInv, Required
  <2>3. TargetInv'
    BY <1>2, <2>1 DEF TargetInv, EverySnapshotPaired
  <2>4. SourcesInv'
    <3>1. <<>> \in Seq(ToSet(<<>>)) /\ DOMAIN <<>> = {}
      OBVIOUS
    <3>2. sources' = <<>>
      BY <1>1, <2>1
    <3> QED
      BY <3>1, <3>2 DEF SourcesInv
  <2> QED
    BY <1>1, <2>1, <2>2, <2>3, <2>4 DEF SelectionInv
<1>3. CASE ~Right
  <2>1. Fail
    BY <1>3 DEF ReadTarget
  <2>2. ~Consistent
    <3> SUFFICES ASSUME Consistent PROVE FALSE
      OBVIOUS
    <3>1. /\ mapping # Unreadable /\ mapping.kind = "mapping"
          /\ Decodable(config) /\ Decode(config).channel = mapping.network
      BY <1>1, ConsistentTarget, ConfigurationDecodes
    <3>2. EverySnapshotPaired
      <4>1. DOMAIN given["snapshot"] = DOMAIN given["source-config"]
        BY <1>1, PairsRead, FlagsAre DEF Consistent
      <4>2. DOMAIN given["snapshot"] # {}
        BY <1>1, FlagsAre DEF CompleteInv, Required
      <4> QED
        BY <4>1, <4>2 DEF EverySnapshotPaired
    <3> QED
      BY <1>3, <3>1, <3>2
  <2> QED
    BY <2>1, <2>2, FailKeeps
<1> QED
  BY <1>2, <1>3

-----------------------------------------------------------------------------
(***************************************************************************)
(* Pairing.                                                                *)
(***************************************************************************)
LEMMA NextIsUnpaired ==
  ASSUME line \in Lines, ParsedInv, Unpaired # {}
  PROVE  NextChannel \in Unpaired
<1>1. DOMAIN given["snapshot"] \subseteq Nat
  BY OncePerChannel, FlagsAre DEF ParsedInv
<1>2. Unpaired \in SUBSET Nat
  BY <1>1 DEF Unpaired
<1>3. \E c \in Unpaired : \A d \in Unpaired : c <= d
  BY <1>2, SmallestChannel
<1> QED
  BY <1>3 DEF NextChannel

(* What is consistent fits, and what fits agrees.                          *)
LEMMA AgreeingFits ==
  ASSUME NEW c \in DOMAIN given["snapshot"], c # NoName,
         c \in DOMAIN given["source-config"],
         FileAt(given["snapshot"][c]).channel = c,
         Agree(FileAt(given["snapshot"][c]), FileAt(given["source-config"][c]))
  PROVE  Fits(c, FileAt(given["snapshot"][c]))
<1> DEFINE snapshot == FileAt(given["snapshot"][c])
           config == FileAt(given["source-config"][c])
<1>1. /\ snapshot # Unreadable /\ snapshot.kind = "snapshot" /\ snapshot.channel = c
      /\ OneConfiguration(config, c) /\ config.kind = "block" /\ config.number \in 0..snapshot.last
  BY DEF Agree
<1>2. Decodable(config) /\ Decode(config).channel = c
  BY <1>1, ConfigurationDecodes
<1>3. NotAfterCheckpoint(Decode(config), snapshot)
  <2>1. Decode(config).block = config.number
    BY <1>1 DEF Decode
  <2>2. config.number # NoBlock /\ config.number <= snapshot.last
    <3>1. config.number \in Nat /\ config.number <= snapshot.last
      BY <1>1
    <3> QED
      BY <3>1, FilesAssumption
  <2> QED
    BY <2>1, <2>2 DEF NotAfterCheckpoint
<1> QED
  BY <1>1, <1>2, <1>3 DEF Fits

LEMMA FittingAgrees ==
  ASSUME NEW c, c # NoName, Fits(c, FileAt(given["snapshot"][c])),
         given["snapshot"][c] \in Paths, given["source-config"][c] \in Paths
  PROVE  /\ FileAt(given["snapshot"][c]).channel = c
         /\ Agree(FileAt(given["snapshot"][c]), FileAt(given["source-config"][c]))
<1> DEFINE snapshot == FileAt(given["snapshot"][c])
           config == FileAt(given["source-config"][c])
<1>1. /\ snapshot # Unreadable /\ snapshot.kind = "snapshot" /\ snapshot.channel = c
      /\ Decodable(config) /\ Decode(config).channel = c
      /\ NotAfterCheckpoint(Decode(config), snapshot)
  BY DEF Fits
<1>2. OneConfiguration(config, c)
  BY <1>1, ConfigurationDecodes
<1>3. config.kind = "block" /\ config.number <= snapshot.last
  BY <1>1 DEF NotAfterCheckpoint, Decode
<1>4. config.number \in Nat /\ snapshot.last \in Nat
  BY <1>1, <1>3, FilesAssumption DEF Decodable
<1> QED
  BY <1>1, <1>2, <1>3, <1>4 DEF Agree

LEMMA PairChannelKeeps ==
  ASSUME SelectionInv, PairChannel
  PROVE  SelectionInv'
<1> DEFINE c == NextChannel
           snapshot == FileAt(given["snapshot"][c])
<1>1. /\ pc = "pairing" /\ ParsedInv /\ line \in Lines /\ CompleteInv /\ TargetInv /\ SourcesInv
      /\ next = Len(line.args) + 1
  BY DEF PairChannel, SelectionInv, CompleteInv
<1>2. c \in DOMAIN given["snapshot"] /\ \A s \in ToSet(sources) : s.channel # c
  <2>1. c \in Unpaired
    BY <1>1, NextIsUnpaired DEF PairChannel
  <2> HIDE DEF c
  <2> QED
    BY <2>1 DEF Unpaired
<1>3. /\ Fits(c, snapshot) =>
           /\ sources' = Append(sources, [channel |-> c, block |-> snapshot.last, config |-> given["source-config"][c]])
           /\ UNCHANGED <<line, pc, next, given, target>>
      /\ ~Fits(c, snapshot) => Fail
  BY DEF PairChannel
<1> HIDE DEF c
<1>4. CASE Fits(c, snapshot)
  <2> DEFINE source == [channel |-> c, block |-> snapshot.last, config |-> given["source-config"][c]]
             n == Len(sources)
  <2>1. sources' = Append(sources, source) /\ UNCHANGED <<line, pc, next, given, target>>
    BY <1>3, <1>4
  <2>2. n \in Nat /\ DOMAIN sources = 1..n /\ \A i \in 1..n : sources[i] \in ToSet(sources)
    BY <1>1 DEF SourcesInv, ToSet
  <2>3. source.channel = c /\ source.config = given["source-config"][c]
    OBVIOUS
  <2> HIDE DEF source, n, snapshot
  <2>4. /\ DOMAIN sources' = 1..(n + 1) /\ sources'[n + 1] = source /\ \A i \in 1..n : sources'[i] = sources[i]
        /\ Len(sources') = n + 1
    BY <1>1, <2>1, <2>2 DEF SourcesInv, n
  <2>5. ParsedInv' /\ CompleteInv' /\ TargetInv'
    BY <1>1, <2>1, ParsedStays DEF CompleteInv, Required, TargetInv, EverySnapshotPaired
  <2>6. sources' \in Seq(ToSet(sources'))
    <3>1. \A i \in 1..(n + 1) : sources'[i] \in ToSet(sources')
      BY <2>4 DEF ToSet
    <3>2. sources' = [i \in 1..(n + 1) |-> sources'[i]]
      <4> DEFINE S == ToSet(sources) \union {source}
      <4>1. sources \in Seq(S) /\ source \in S
        <5>1. sources \in Seq(ToSet(sources)) /\ ToSet(sources) \subseteq S
          BY <1>1 DEF SourcesInv
        <5> HIDE DEF S
        <5>2. sources \in Seq(S)
          BY <5>1
        <5> QED
          BY <5>2 DEF S
      <4> HIDE DEF S
      <4>2. sources' \in Seq(S)
        BY <2>1, <4>1
      <4> QED
        BY <2>4, <4>2
    <3> QED
      BY <2>2, <3>1, <3>2
  <2>7. \A i \in DOMAIN sources' : SourceFits(sources'[i])
    <3> SUFFICES ASSUME NEW i \in 1..(n + 1)
                 PROVE  SourceFits(sources'[i])
      BY <2>4
    <3>1. CASE i = n + 1
      BY <1>2, <1>4, <2>3, <2>4, <3>1 DEF snapshot, SourceFits
    <3>2. CASE i # n + 1
      <4>1. i \in 1..n /\ sources'[i] = sources[i]
        BY <2>2, <2>4, <3>2
      <4> QED
        BY <1>1, <2>2, <4>1 DEF SourcesInv
    <3> QED
      BY <3>1, <3>2
  <2>8. \A i, j \in DOMAIN sources' : sources'[i].channel = sources'[j].channel => i = j
    <3> SUFFICES ASSUME NEW i \in 1..(n + 1), NEW j \in 1..(n + 1), sources'[i].channel = sources'[j].channel
                 PROVE  i = j
      BY <2>4
    <3>1. \A k \in 1..(n + 1) : k # n + 1 => k \in 1..n /\ sources'[k] = sources[k] /\ sources[k].channel # c
      BY <1>2, <2>2, <2>4
    <3> QED
      BY <1>1, <2>2, <2>3, <2>4, <3>1 DEF SourcesInv
  <2>9. SourcesInv'
    <3>1. given' = given
      BY <2>1
    <3>2. \A i \in DOMAIN sources' : SourceFits(sources[i])'
      BY <2>7, <3>1 DEF SourceFits, Fits
    <3> QED
      BY <2>6, <2>8, <3>2 DEF SourcesInv
  <2> QED
    BY <1>1, <2>1, <2>5, <2>9 DEF SelectionInv
<1>5. CASE ~Fits(c, snapshot)
  <2>1. ~Consistent
    <3> SUFFICES ASSUME Consistent PROVE FALSE
      OBVIOUS
    <3>1. PICK a \in Args("snapshot") : a.channel = c /\ a.path = given["snapshot"][c]
      BY <1>1, <1>2, PairsRead, FlagsAre
    <3>2. PICK b \in Args("source-config") : b.channel = c
      BY <3>1 DEF Consistent
    <3>3. c \in DOMAIN given["source-config"] /\ given["source-config"][c] = b.path /\ c # NoName
      BY <1>1, <3>2, PairsRead, FlagsAre
    <3>4. Agree(FileAt(a.path), FileAt(b.path)) /\ FileAt(a.path).channel = c
      BY <3>1, <3>2 DEF Consistent
    <3> QED
      BY <1>2, <1>5, <3>1, <3>3, <3>4, AgreeingFits
  <2> QED
    BY <1>3, <1>5, <2>1, FailKeeps
<1> QED
  BY <1>4, <1>5

LEMMA AllPairedKeeps ==
  ASSUME SelectionInv, AllPaired
  PROVE  SelectionInv'
<1>1. /\ pc = "pairing" /\ Unpaired = {} /\ pc' = "paired" /\ UNCHANGED <<line, next, given, target, sources>>
      /\ ParsedInv /\ CompleteInv /\ TargetInv /\ SourcesInv /\ line \in Lines
  BY DEF AllPaired, SelectionInv
<1>2. ParsedInv' /\ CompleteInv' /\ TargetInv' /\ SourcesInv' /\ Unpaired' = {}
  BY <1>1, ParsedStays DEF CompleteInv, Required, TargetInv, EverySnapshotPaired, SourcesInv, SourceFits, Fits, Unpaired
<1> QED
  BY <1>1, <1>2 DEF SelectionInv

LEMMA StutterKeeps ==
  ASSUME SelectionInv, UNCHANGED vars
  PROVE  SelectionInv'
<1>1. UNCHANGED <<line, pc, next, given, target, sources>>
  BY DEF vars
<1>2. CASE pc = "failed"
  BY <1>1, <1>2, ConsistencyStays DEF SelectionInv
<1>3. CASE pc # "failed"
  <2>1. ParsedInv /\ ParsedInv'
    BY <1>1, <1>3, ParsedStays DEF SelectionInv
  <2>2. /\ CompleteInv => CompleteInv'
        /\ TargetInv => TargetInv'
        /\ SourcesInv => SourcesInv'
        /\ Unpaired' = Unpaired
    BY <1>1 DEF CompleteInv, Required, TargetInv, EverySnapshotPaired, SourcesInv, SourceFits, Fits, Unpaired
  <2> QED
    BY <1>1, <1>3, <2>1, <2>2 DEF SelectionInv
<1> QED
  BY <1>2, <1>3

-----------------------------------------------------------------------------
(* Between the command line and the report every step keeps the link from  *)
(* arguments to files to sources.                                          *)
THEOREM SelectionInvariant == Spec => []SelectionInv
<1>1. Init => SelectionInv
  BY ParsingStarts
<1>2. SelectionInv /\ [Next]_vars => SelectionInv'
  BY ParseArgumentKeeps, ParsingFailsKeeps, ParsingEndsKeeps, ReadTargetKeeps, PairChannelKeeps,
     AllPairedKeeps, StutterKeeps DEF Next
<1> QED
  BY <1>1, <1>2, PTL DEF Spec

(* When everything is paired, the channels of the two flags are the same   *)
(* and every one of them has been found to fit.                            *)
LEMMA AllFit ==
  ASSUME SelectionInv, pc = "paired"
  PROVE  /\ line \in Lines /\ ParsedInv /\ CompleteInv /\ TargetInv /\ SourcesInv
         /\ next = Len(line.args) + 1
         /\ DOMAIN given["snapshot"] = {sources[i].channel : i \in DOMAIN sources}
         /\ DOMAIN given["snapshot"] = DOMAIN given["source-config"]
         /\ \A c \in DOMAIN given["snapshot"] : Fits(c, FileAt(given["snapshot"][c]))
<1>1. /\ line \in Lines /\ ParsedInv /\ CompleteInv /\ TargetInv /\ SourcesInv /\ Unpaired = {}
      /\ next = Len(line.args) + 1
  BY DEF SelectionInv, CompleteInv
<1>2. DOMAIN given["snapshot"] = {sources[i].channel : i \in DOMAIN sources}
  <2>1. \A c \in DOMAIN given["snapshot"] : \E s \in ToSet(sources) : s.channel = c
    BY <1>1 DEF Unpaired
  <2>2. \A i \in DOMAIN sources : sources[i].channel \in DOMAIN given["snapshot"]
    BY <1>1 DEF SourcesInv, SourceFits
  <2> QED
    BY <2>1, <2>2 DEF ToSet
<1>3. \A c \in DOMAIN given["snapshot"] : Fits(c, FileAt(given["snapshot"][c]))
  BY <1>1, <1>2 DEF SourcesInv, SourceFits
<1>4. DOMAIN given["snapshot"] \subseteq DOMAIN given["source-config"]
  BY <1>3 DEF Fits
<1>5. IsFiniteSet(DOMAIN given["source-config"])
  BY <1>1, OncePerChannel, FlagsAre DEF ParsedInv
<1>6. Cardinality(DOMAIN given["snapshot"]) = Cardinality(DOMAIN given["source-config"])
  BY <1>1 DEF TargetInv, EverySnapshotPaired
<1>7. DOMAIN given["snapshot"] = DOMAIN given["source-config"]
  BY <1>4, <1>5, <1>6, FS_Subset
<1> QED
  BY <1>1, <1>2, <1>3, <1>7

LEMMA PairedPaths ==
  ASSUME line \in Lines, ParsedInv, next = Len(line.args) + 1, NEW f \in PairFlags, NEW c \in DOMAIN given[f]
  PROVE  given[f][c] \in Paths /\ c # NoName
<1>1. PICK a \in Args(f) : a.channel = c /\ a.path = given[f][c]
  BY PairsRead
<1>2. a.channel # NoName /\ a.path # NoName
  BY PairsRead
<1>3. PICK i \in DOMAIN line.args : a = line.args[i] /\ line.args[i].flag = f
  BY DEF Args, Uses
<1>4. line.args[i].flag # "database-url"
  BY <1>3, FlagsAre
<1> QED
  BY <1>1, <1>2, <1>3, <1>4, Positions

LEMMA PairedIsConsistent ==
  ASSUME SelectionInv, pc = "paired"
  PROVE  Consistent
<1>1. /\ line \in Lines /\ ParsedInv /\ CompleteInv /\ TargetInv
      /\ next = Len(line.args) + 1
      /\ DOMAIN given["snapshot"] = DOMAIN given["source-config"]
      /\ \A c \in DOMAIN given["snapshot"] : Fits(c, FileAt(given["snapshot"][c]))
  BY AllFit
<1>2. line.command = "import" /\ \A i \in DOMAIN line.args : line.args[i].flag \in PairFlags \union PlainFlags
  BY <1>1, AllRead DEF CompleteInv, Flags
<1>3. \A i, j \in DOMAIN line.args :
        line.args[i].flag \in PairFlags /\ line.args[i].flag = line.args[j].flag
        /\ line.args[i].channel = line.args[j].channel => i = j
  <2> SUFFICES ASSUME NEW i \in DOMAIN line.args, NEW j \in DOMAIN line.args, line.args[i].flag \in PairFlags,
                      line.args[i].flag = line.args[j].flag, line.args[i].channel = line.args[j].channel
               PROVE  i = j
    OBVIOUS
  <2> DEFINE f == line.args[i].flag
  <2>1. i \in Uses(f) /\ j \in Uses(f)
    BY DEF Uses
  <2> HIDE DEF f
  <2>2. PairInv(f) /\ Before(f) = Uses(f)
    BY <1>1, AllRead DEF ParsedInv, f
  <2> QED
    BY <2>1, <2>2 DEF PairInv
<1>4. \A f \in PairFlags : \A a \in Args(f) : a.channel # NoName /\ a.path # NoName
  BY <1>1, PairsRead
<1>5. \A f \in PlainFlags :
        LastOf(f) # 0 /\ given[f] = line.args[LastOf(f)].path /\ line.args[LastOf(f)].path # NoName
  <2>1. \A f \in PlainFlags : given[f] # NoName
    BY <1>1 DEF CompleteInv, Required
  <2> QED
    BY <1>1, <2>1, PlainRead
<1>6. /\ given["database-url"] = line.args[LastOf("database-url")].path
      /\ given["mapping"] = line.args[LastOf("mapping")].path
      /\ given["target-config"] = line.args[LastOf("target-config")].path
  BY <1>5, FlagsAre
<1>7. LET mapping == FileAt(given["mapping"])
      IN /\ mapping # Unreadable /\ mapping.kind = "mapping" /\ mapping.network # NoName
         /\ OneConfiguration(FileAt(given["target-config"]), mapping.network)
  <2> DEFINE mapping == FileAt(given["mapping"])
             config == FileAt(given["target-config"])
  <2>1. /\ mapping # Unreadable /\ mapping.kind = "mapping" /\ Decodable(config)
        /\ Decode(config).channel = mapping.network
    BY <1>1 DEF TargetInv
  <2>2. Decode(config).channel # NoName
    BY <2>1 DEF Decodable, Decode
  <2> QED
    BY <2>1, <2>2, ConfigurationDecodes
<1>8. /\ DOMAIN given["snapshot"] = {a.channel : a \in Args("snapshot")}
      /\ DOMAIN given["source-config"] = {a.channel : a \in Args("source-config")}
      /\ \A a \in Args("snapshot") : given["snapshot"][a.channel] = a.path
      /\ \A a \in Args("source-config") : given["source-config"][a.channel] = a.path
  BY <1>1, PairsRead, FlagsAre
<1>9. Args("snapshot") # {}
  BY <1>1, <1>8, FlagsAre DEF CompleteInv, Required
<1>10. ASSUME NEW a \in Args("snapshot"), NEW b \in Args("source-config"), a.channel = b.channel
       PROVE  Agree(FileAt(a.path), FileAt(b.path)) /\ FileAt(a.path).channel = a.channel
  <2> DEFINE c == a.channel
  <2>1. c \in DOMAIN given["snapshot"] /\ c \in DOMAIN given["source-config"]
        /\ given["snapshot"][c] = a.path /\ given["source-config"][c] = b.path
    BY <1>8, <1>10
  <2> HIDE DEF c
  <2>2. given["snapshot"][c] \in Paths /\ given["source-config"][c] \in Paths /\ c # NoName
    BY <1>1, <2>1, PairedPaths, FlagsAre
  <2> QED
    BY <1>1, <2>1, <2>2, FittingAgrees DEF c
<1>11. line.args[LastOf("database-url")].path \in URLs
  BY <1>1, <1>6 DEF CompleteInv
<1> QED
  BY <1>1, <1>2, <1>3, <1>4, <1>5, <1>6, <1>7, <1>8, <1>9, <1>10, <1>11 DEF Consistent

(* Exactly the command lines whose inputs belong together lead to an       *)
(* import, whatever the order of their flags (main.go, import.go:71-102).  *)
THEOREM BelongTogether == Spec => []InputsBelongTogether
<1>1. SelectionInv => InputsBelongTogether
  BY PairedIsConsistent DEF SelectionInv, InputsBelongTogether
<1> QED
  BY <1>1, SelectionInvariant, PTL

(* Every snapshot and every source configuration that was given is among   *)
(* the sources of the report, once.                                        *)
THEOREM AllReported == Spec => []NoneIgnored
<1>1. SelectionInv => NoneIgnored
  <2> SUFFICES ASSUME SelectionInv, pc = "paired" PROVE NoneIgnored
    BY DEF NoneIgnored
  <2>1. /\ line \in Lines /\ ParsedInv /\ SourcesInv /\ next = Len(line.args) + 1
        /\ DOMAIN given["snapshot"] = {sources[i].channel : i \in DOMAIN sources}
        /\ DOMAIN given["snapshot"] = DOMAIN given["source-config"]
    BY AllFit
  <2>2. /\ Cardinality(DOMAIN given["snapshot"]) = Cardinality(Uses("snapshot"))
        /\ Cardinality(DOMAIN given["source-config"]) = Cardinality(Uses("source-config"))
    BY <2>1, OncePerChannel, AllRead, FlagsAre DEF ParsedInv
  <2>3. Len(sources) = Cardinality(DOMAIN given["snapshot"])
    <3> DEFINE b == [i \in DOMAIN sources |-> sources[i].channel]
    <3>1. Len(sources) \in Nat /\ DOMAIN sources = 1..Len(sources)
      BY <2>1 DEF SourcesInv
    <3>2. IsFiniteSet(DOMAIN sources) /\ Cardinality(DOMAIN sources) = Len(sources)
      <4> DEFINE n == Len(sources)
      <4>1. n \in Nat /\ DOMAIN sources = 1..n
        BY <3>1
      <4> HIDE DEF n
      <4>2. IsFiniteSet(1..n) /\ Cardinality(1..n) = IF 1 > n THEN 0 ELSE n - 1 + 1
        BY <4>1, FS_Interval
      <4>3. Cardinality(1..n) = n
        BY <4>1, <4>2
      <4> QED
        BY <4>1, <4>2, <4>3 DEF n
    <3>3. b \in Bijection(DOMAIN sources, DOMAIN given["snapshot"])
      <4>1. b \in Surjection(DOMAIN sources, DOMAIN given["snapshot"])
        BY <2>1 DEF Surjection
      <4>2. \A i, j \in DOMAIN sources : b[i] = b[j] => i = j
        BY <2>1 DEF SourcesInv
      <4> QED
        BY <4>1, <4>2 DEF Bijection, Injection, IsInjective, Surjection
    <3> QED
      BY <3>2, <3>3, FS_Bijection DEF ExistsBijection
  <2>4. {[channel |-> s.channel, path |-> s.config] : s \in ToSet(sources)}
          = {[channel |-> a.channel, path |-> a.path] : a \in Args("source-config")}
    <3> DEFINE pair(c) == [channel |-> c, path |-> given["source-config"][c]]
               D == DOMAIN given["source-config"]
    <3>1. \A s \in ToSet(sources) : [channel |-> s.channel, path |-> s.config] = pair(s.channel) /\ s.channel \in D
      <4>1. \A i \in DOMAIN sources : sources[i].config = given["source-config"][sources[i].channel]
        BY <2>1 DEF SourcesInv, SourceFits
      <4> QED
        BY <2>1, <4>1 DEF ToSet
    <3>2. \A c \in D : \E s \in ToSet(sources) : s.channel = c
      BY <2>1 DEF ToSet
    <3>3. \A a \in Args("source-config") : [channel |-> a.channel, path |-> a.path] = pair(a.channel) /\ a.channel \in D
      BY <2>1, PairsRead, FlagsAre
    <3>4. \A c \in D : \E a \in Args("source-config") : a.channel = c
      BY <2>1, PairsRead, FlagsAre
    <3> HIDE DEF pair, D
    <3> DEFINE ofSource(s) == [channel |-> s.channel, path |-> s.config]
               ofArgument(a) == [channel |-> a.channel, path |-> a.path]
    <3>5. {ofSource(s) : s \in ToSet(sources)} = {pair(c) : c \in D}
      <4>1. \A s \in ToSet(sources) : ofSource(s) = pair(s.channel) /\ s.channel \in D
        BY <3>1
      <4> HIDE DEF ofSource
      <4> QED
        BY <4>1, <3>2
    <3>6. {ofArgument(a) : a \in Args("source-config")} = {pair(c) : c \in D}
      <4>1. \A a \in Args("source-config") : ofArgument(a) = pair(a.channel) /\ a.channel \in D
        BY <3>3
      <4> HIDE DEF ofArgument
      <4> QED
        BY <4>1, <3>4
    <3> QED
      BY <3>5, <3>6
  <2> QED
    BY <2>1, <2>2, <2>3, <2>4 DEF NoneIgnored
<1> QED
  BY <1>1, SelectionInvariant, PTL
-----------------------------------------------------------------------------
(***************************************************************************)
(* The resolved configuration.                                             *)
(***************************************************************************)
Rewritten(e, resolved) ==
  [x \in EnvelopeFields |->
     CASE x = "config" -> resolved [] x = "encoding" -> "deterministic" [] x = "signature" -> NoName
       [] OTHER -> e[x]]

LEMMA EnvelopeRead ==
  ASSUME NEW p \in Paths, Decodable(FileAt(p))
  PROVE  LET e == Decode(FileAt(p)).envelope
         IN  /\ e \in EnvelopesAt(p)
             /\ e = [x \in EnvelopeFields |-> e[x]]
             /\ e.type = "CONFIG" /\ e.channel # NoName /\ e.application = TRUE
             /\ Decode(FileAt(p)).channel = e.channel
<1> DEFINE file == FileAt(p)
           e == file.data[1]
<1>1. /\ file # Unreadable /\ file.kind \in {"envelope", "block"} /\ Len(file.data) = 1
      /\ e.type = "CONFIG" /\ e.channel # NoName /\ e.application
      /\ Decode(file).envelope = e /\ Decode(file).channel = e.channel
  BY DEF Decodable, Decode
<1>2. file.data \in Seq(ToSet(file.data))
  BY <1>1, FilesAssumption
<1>3. e \in ToSet(file.data)
  BY <1>1, <1>2
<1>4. e \in EnvelopesAt(p)
  BY <1>1, <1>3 DEF EnvelopesAt
<1>5. e = [x \in EnvelopeFields |-> e[x]] /\ e.application \in BOOLEAN
  BY <1>4, FilesAssumption
<1> QED
  BY <1>1, <1>4, <1>5

LEMMA EncodeRewrites ==
  ASSUME NEW c, NEW e, e = [x \in EnvelopeFields |-> e[x]], c.envelope = e, NEW resolved, c.config = resolved
  PROVE  Encode(c) = [kind |-> "envelope", data |-> <<Rewritten(e, resolved)>>]
<1>1. [e EXCEPT !.config = resolved, !.encoding = "deterministic", !.signature = NoName] = Rewritten(e, resolved)
  BY DEF Rewritten, EnvelopeFields
<1> QED
  BY <1>1 DEF Encode

LEMMA RewrittenFields ==
  ASSUME NEW e, NEW resolved
  PROVE  LET r == Rewritten(e, resolved)
         IN  /\ r = [x \in EnvelopeFields |-> r[x]]
             /\ r.config = resolved /\ r.type = e.type /\ r.channel = e.channel /\ r.application = e.application
             /\ Rewritten(r, resolved) = r
BY DEF Rewritten, EnvelopeFields

LEMMA ResolvedEncoded ==
  ASSUME NEW p \in Paths, Decodable(FileAt(p)), NEW resolved
  PROVE  Encode([Decode(FileAt(p)) EXCEPT !.config = resolved])
           = [kind |-> "envelope", data |-> <<Rewritten(Decode(FileAt(p)).envelope, resolved)>>]
<1> DEFINE c == [Decode(FileAt(p)) EXCEPT !.config = resolved]
           e == Decode(FileAt(p)).envelope
<1>1. c.envelope = e /\ c.config = resolved
  BY DEF Decode
<1>2. e = [x \in EnvelopeFields |-> e[x]]
  BY EnvelopeRead
<1> HIDE DEF c, e
<1>3. Encode(c) = [kind |-> "envelope", data |-> <<Rewritten(e, resolved)>>]
  BY <1>1, <1>2, EncodeRewrites
<1> QED
  BY <1>3 DEF c, e

(* The resolved configuration that the report contains is a target         *)
(* configuration again, the one it was resolved to, with the same bytes,   *)
(* however the one it came from was signed, serialized or wrapped          *)
(* (config.go:80-94).                                                      *)
THEOREM ResolvedReusable == Spec => []ResolvedIsReusable
<1>1. SelectionInv => ResolvedIsReusable
  <2> SUFFICES ASSUME SelectionInv, pc = "paired", NEW resolved \in Configs
               PROVE  LET output == Encode([target EXCEPT !.config = resolved])
                          again == Decode(output)
                      IN /\ Decodable(output)
                         /\ again.config = resolved
                         /\ again.channel = target.channel
                         /\ Encode(again) = output
                         /\ \A p \in Paths :
                              LET other == Decode(FileAt(p))
                              IN Decodable(FileAt(p)) /\ other.envelope.header = target.envelope.header =>
                                   Encode([other EXCEPT !.config = resolved]) = output
    BY DEF ResolvedIsReusable
  <2> DEFINE path == given["target-config"]
             e == target.envelope
             r == Rewritten(e, resolved)
             output == [kind |-> "envelope", data |-> <<r>>]
  <2>1. Decodable(FileAt(path)) /\ target = Decode(FileAt(path)) /\ path \in Paths
    <3>1. line \in Lines /\ ParsedInv /\ CompleteInv /\ TargetInv /\ next = Len(line.args) + 1
      BY AllFit
    <3>2. path # NoName
      BY <3>1, FlagsAre DEF CompleteInv, Required
    <3>3. LastOf("target-config") \in Uses("target-config") /\ path = line.args[LastOf("target-config")].path
      BY <3>1, <3>2, PlainRead, FlagsAre
    <3>4. path \in Paths
      BY <3>1, <3>2, <3>3, Positions DEF Uses
    <3> QED
      BY <3>1, <3>4 DEF TargetInv
  <2>2. /\ e \in EnvelopesAt(path) /\ e = [x \in EnvelopeFields |-> e[x]]
        /\ e.type = "CONFIG" /\ e.channel # NoName /\ e.application = TRUE /\ target.channel = e.channel
    BY <2>1, EnvelopeRead
  <2>3. Encode([target EXCEPT !.config = resolved]) = output
    BY <2>1, ResolvedEncoded
  <2>4. /\ r = [x \in EnvelopeFields |-> r[x]] /\ r.config = resolved /\ r.type = "CONFIG" /\ r.channel = e.channel
        /\ r.application = TRUE /\ Rewritten(r, resolved) = r
    BY <2>2, RewrittenFields
  <2>5. ASSUME NEW p \in Paths, Decodable(FileAt(p)), Decode(FileAt(p)).envelope.header = e.header
        PROVE  Encode([Decode(FileAt(p)) EXCEPT !.config = resolved]) = output
    <3> DEFINE o == Decode(FileAt(p)).envelope
    <3>1. /\ o \in EnvelopesAt(p) /\ o.type = "CONFIG" /\ o.application = TRUE
      BY <2>5, EnvelopeRead
    <3>2. o.header = e.header /\ o.channel = e.channel
      BY <2>1, <2>2, <2>5, <3>1, FilesAssumption
    <3> HIDE DEF o
    <3>3. Rewritten(o, resolved) = r
      BY <2>2, <3>1, <3>2 DEF Rewritten, EnvelopeFields
    <3>4. Encode([Decode(FileAt(p)) EXCEPT !.config = resolved])
            = [kind |-> "envelope", data |-> <<Rewritten(o, resolved)>>]
      BY <2>5, ResolvedEncoded DEF o
    <3> QED
      BY <3>3, <3>4
  <2> HIDE DEF e, r
  <2>6. /\ output.kind = "envelope" /\ Len(output.data) = 1 /\ output.data[1] = r
    OBVIOUS
  <2>7. Decodable(output)
    <3>1. output # Unreadable
      BY <2>1, <2>3, UnreadableAssumption
    <3> QED
      BY <2>2, <2>4, <2>6, <3>1 DEF Decodable
  <2>8. Decode(output).config = resolved /\ Decode(output).channel = target.channel
        /\ Decode(output).envelope = r
    BY <2>2, <2>4, <2>6 DEF Decode
  <2>9. Encode(Decode(output)) = output
    BY <2>4, <2>8, EncodeRewrites
  <2> HIDE DEF output
  <2> QED
    BY <2>3, <2>5, <2>7, <2>8, <2>9 DEF e
<1> QED
  BY <1>1, SelectionInvariant, PTL
=============================================================================
