--------------------------- MODULE InputSelection ---------------------------
(***************************************************************************)
(* From the command line to the inputs of an import: Run and channelPaths  *)
(* (internal/cmd/main.go), and the part of Import that reads the target    *)
(* configuration and pairs snapshots with source configurations            *)
(* (internal/migrate/import.go:51-106), with decodeChannelConfig and       *)
(* encode (config.go:33-94).                                               *)
(*                                                                         *)
(* An argument is a record [flag, channel, path]; channel is NoName for a  *)
(* flag with a plain value, and "stray" is the flag of an argument that is *)
(* none.  NoName stands for an empty string, and for what is missing from  *)
(* a malformed value.  Channels are numbers, in the order of their names.  *)
(*                                                                         *)
(* Files have one of the kinds                                             *)
(*   [kind |-> "mapping", network]                                         *)
(*   [kind |-> "snapshot", channel, last]     last: its last block number  *)
(*   [kind |-> "envelope", data], [kind |-> "block", number, data]         *)
(* or are Unreadable; data is a sequence of envelopes                      *)
(*   [type, header, channel, config, application, encoding, signature]     *)
(* in which header stands for the payload's headers as a whole, type and   *)
(* channel for what they say, config for the contents of a ConfigEnvelope, *)
(* application for its having an Application group, and encoding for the   *)
(* order its fields are serialized in.                                     *)
(***************************************************************************)
EXTENDS Naturals, Sequences, SequencesExt, FiniteSetsExt

CONSTANTS
  Lines,         \* command lines: [command, args]
  Paths,
  FileAt(_),     \* what is at a path
  Configs,       \* contents of a ConfigEnvelope
  URLs,          \* connection strings pgxpool accepts
  NoName, NoBlock, Unreadable

ASSUME LinesAssumption ==
  \A l \in Lines :
    /\ l.args \in Seq(ToSet(l.args))
    /\ \A i \in DOMAIN l.args :
         /\ l.args[i].channel \in Nat \union {NoName}
         /\ l.args[i].flag # "database-url" => l.args[i].path \in Paths \union {NoName}

(* What distinguishes the messages of a config file: an envelope has these *)
(* fields, and its headers say what type it has and which channel it is of.*)
EnvelopeFields == {"type", "header", "channel", "config", "application", "encoding", "signature"}

EnvelopesAt(path) ==
  LET file == FileAt(path)
  IN IF file # Unreadable /\ file.kind \in {"envelope", "block"} THEN ToSet(file.data) ELSE {}

ASSUME FilesAssumption ==
  /\ NoBlock \notin Nat
  /\ \A p \in Paths :
       /\ FileAt(p) # Unreadable => FileAt(p).kind \in {"mapping", "snapshot", "envelope", "block"}
       /\ FileAt(p) # Unreadable /\ FileAt(p).kind = "snapshot" => FileAt(p).last \in Nat
       /\ FileAt(p) # Unreadable /\ FileAt(p).kind = "block" => FileAt(p).number \in Nat
       /\ FileAt(p) # Unreadable /\ FileAt(p).kind \in {"envelope", "block"} =>
            FileAt(p).data \in Seq(ToSet(FileAt(p).data))
       /\ \A e \in EnvelopesAt(p) :
            /\ e = [x \in EnvelopeFields |-> e[x]]
            /\ e.application \in BOOLEAN
            /\ \A q \in Paths : \A o \in EnvelopesAt(q) :
                 e.header = o.header => e.type = o.type /\ e.channel = o.channel

PairFlags == {"snapshot", "source-config"}
PlainFlags == {"mapping", "target-config", "database-url"}

VARIABLES
  line,
  pc,        \* "flags", "files", "pairing", "paired" or "failed"
  next,      \* the next argument
  given,     \* what has been given with the flags
  target,    \* the decoded target configuration
  sources    \* result.Sources: [channel, block, config], config standing for its hash

vars == <<line, pc, next, given, target, sources>>

(***************************************************************************)
(* decodeChannelConfig and encode.  The encoded envelope keeps the headers *)
(* of the payload; it has no signature and no block around it.             *)
(***************************************************************************)
Decodable(file) ==
  /\ file # Unreadable
  /\ file.kind \in {"envelope", "block"}
  /\ Len(file.data) = 1
  /\ file.data[1].type = "CONFIG"
  /\ file.data[1].channel # NoName
  /\ file.data[1].application

Decode(file) ==
  [channel |-> file.data[1].channel,
   block |-> IF file.kind = "block" THEN file.number ELSE NoBlock,
   envelope |-> file.data[1],
   config |-> file.data[1].config]

(* As Encode, around the bytes of the payload that was read.               *)
EncodePayloadRead(c) ==
  [kind |-> "envelope", data |-> <<[c.envelope EXCEPT !.signature = NoName]>>]

Encode(c) ==
  [kind |-> "envelope",
   data |-> <<[c.envelope EXCEPT !.config = c.config, !.encoding = "deterministic",
                                 !.signature = NoName]>>]

(* Unreadable is none of the files that encode writes.                     *)
ASSUME UnreadableAssumption ==
  \A p \in Paths : Decodable(FileAt(p)) =>
    \A c \in Configs : Encode([Decode(FileAt(p)) EXCEPT !.config = c]) # Unreadable

(***************************************************************************)
(* Run: the flags in their order.                                          *)
(***************************************************************************)
Put(f, key, value) == [x \in DOMAIN f \union {key} |-> IF x = key THEN value ELSE f[x]]

Empty == [x \in {} |-> NoName]

NothingGiven ==
  [f \in PairFlags \union PlainFlags |-> IF f \in PairFlags THEN Empty ELSE NoName]

Init ==
  /\ line \in Lines
  /\ pc = "flags"
  /\ next = 1
  /\ given = NothingGiven
  /\ target = NoName
  /\ sources = <<>>

Fail == pc' = "failed" /\ UNCHANGED <<line, next, given, target, sources>>

Argument == line.args[next]

(* channelPaths.Set refuses malformed values and a channel given before; a *)
(* plain flag that is repeated has its last value.                         *)
Understood(arg) ==
  \/ arg.flag \in PlainFlags
  \/ /\ arg.flag \in PairFlags
     /\ arg.channel # NoName
     /\ arg.path # NoName
     /\ arg.channel \notin DOMAIN given[arg.flag]

ParseArgument ==
  /\ pc = "flags"
  /\ line.command = "import"
  /\ next \in DOMAIN line.args
  /\ Understood(Argument)
  /\ given' = [given EXCEPT ![Argument.flag] =
                  IF Argument.flag \in PairFlags THEN Put(@, Argument.channel, Argument.path)
                  ELSE Argument.path]
  /\ next' = next + 1
  /\ UNCHANGED <<line, pc, target, sources>>

(* An unknown flag, a value that is refused, or an argument that is none.  *)
ParsingFails ==
  /\ pc = "flags"
  /\ \/ line.command # "import"
     \/ next \in DOMAIN line.args /\ ~Understood(Argument)
  /\ Fail

Required ==
  /\ \A f \in PairFlags : DOMAIN given[f] # {}
  /\ \A f \in PlainFlags : given[f] # NoName

ParsingEnds ==
  /\ pc = "flags"
  /\ line.command = "import"
  /\ next \notin DOMAIN line.args
  /\ IF Required /\ given["database-url"] \in URLs
     THEN pc' = "files" /\ UNCHANGED <<line, next, given, target, sources>>
     ELSE Fail

(***************************************************************************)
(* Import: mapping and target configuration, then every channel in order.  *)
(***************************************************************************)
(* As EverySnapshotPaired, which does not count.                           *)
SomeSnapshot == DOMAIN given["snapshot"] # {}

EverySnapshotPaired ==
  /\ DOMAIN given["snapshot"] # {}
  /\ Cardinality(DOMAIN given["snapshot"]) = Cardinality(DOMAIN given["source-config"])

ReadTarget ==
  /\ pc = "files"
  /\ LET mapping == FileAt(given["mapping"])
         config == FileAt(given["target-config"])
     IN IF /\ mapping # Unreadable
           /\ mapping.kind = "mapping"
           /\ Decodable(config)
           /\ Decode(config).channel = mapping.network
           /\ EverySnapshotPaired
        THEN /\ pc' = "pairing"
             /\ target' = Decode(config)
             /\ UNCHANGED <<line, next, given, sources>>
        ELSE Fail

(* As NotAfterCheckpoint, with the block of the checkpoint left out.       *)
BeforeCheckpoint(config, snapshot) == config.block # NoBlock /\ config.block < snapshot.last

NotAfterCheckpoint(config, snapshot) == config.block # NoBlock /\ config.block <= snapshot.last

(* options.SourceConfigs[channel] is the empty path for a channel without  *)
(* a source configuration; there is no such file.                          *)
Fits(channel, snapshot) ==
  /\ snapshot # Unreadable
  /\ snapshot.kind = "snapshot"
  /\ snapshot.channel = channel
  /\ channel \in DOMAIN given["source-config"]
  /\ LET config == FileAt(given["source-config"][channel])
     IN /\ Decodable(config)
        /\ Decode(config).channel = channel
        /\ NotAfterCheckpoint(Decode(config), snapshot)

(* sortedKeys(options.Snapshots): the channels that are left, in order.    *)
Unpaired == DOMAIN given["snapshot"] \ {s.channel : s \in ToSet(sources)}

NextChannel == CHOOSE c \in Unpaired : \A d \in Unpaired : c <= d

PairChannel ==
  /\ pc = "pairing"
  /\ Unpaired # {}
  /\ LET snapshot == FileAt(given["snapshot"][NextChannel])
     IN IF Fits(NextChannel, snapshot)
        THEN /\ sources' = Append(sources, [channel |-> NextChannel, block |-> snapshot.last,
                                            config |-> given["source-config"][NextChannel]])
             /\ UNCHANGED <<line, pc, next, given, target>>
        ELSE Fail

AllPaired ==
  /\ pc = "pairing"
  /\ Unpaired = {}
  /\ pc' = "paired"
  /\ UNCHANGED <<line, next, given, target, sources>>

Next == ParseArgument \/ ParsingFails \/ ParsingEnds \/ ReadTarget \/ PairChannel \/ AllPaired

Spec == Init /\ [][Next]_vars

(***************************************************************************)
(* Properties.                                                             *)
(***************************************************************************)
Uses(flag) == {i \in DOMAIN line.args : line.args[i].flag = flag}

Args(flag) == {line.args[i] : i \in Uses(flag)}

(* The value that counts of a plain flag.                                  *)
LastOf(flag) == Max(Uses(flag) \union {0})

OneConfiguration(file, channel) ==
  /\ file # Unreadable
  /\ file.kind \in {"envelope", "block"}
  /\ Len(file.data) = 1
  /\ file.data[1].type = "CONFIG"
  /\ file.data[1].channel = channel
  /\ file.data[1].application

Agree(snapshot, config) ==
  /\ snapshot # Unreadable
  /\ snapshot.kind = "snapshot"
  /\ OneConfiguration(config, snapshot.channel)
  /\ config.kind = "block"
  /\ config.number \in 0..snapshot.last

(* A command line names, in whatever order, an input of every kind and no  *)
(* channel twice, and the files at its paths belong together.              *)
Consistent ==
  /\ line.command = "import"
  /\ \A i \in DOMAIN line.args : line.args[i].flag \in PairFlags \union PlainFlags
  /\ \A i, j \in DOMAIN line.args :
       line.args[i].flag \in PairFlags /\ line.args[i].flag = line.args[j].flag
       /\ line.args[i].channel = line.args[j].channel => i = j
  /\ \A f \in PairFlags : \A a \in Args(f) : a.channel # NoName /\ a.path # NoName
  /\ \A f \in PlainFlags : LastOf(f) # 0 /\ line.args[LastOf(f)].path # NoName
  /\ line.args[LastOf("database-url")].path \in URLs
  /\ LET mapping == FileAt(line.args[LastOf("mapping")].path)
     IN /\ mapping # Unreadable
        /\ mapping.kind = "mapping"
        /\ mapping.network # NoName
        /\ OneConfiguration(FileAt(line.args[LastOf("target-config")].path), mapping.network)
  /\ Args("snapshot") # {}
  /\ {a.channel : a \in Args("snapshot")} = {a.channel : a \in Args("source-config")}
  /\ \A a \in Args("snapshot"), b \in Args("source-config") :
       a.channel = b.channel => Agree(FileAt(a.path), FileAt(b.path)) /\ FileAt(a.path).channel = a.channel

(* An import goes on with inputs that belong together, whatever the order  *)
(* of the flags, and with no others: each snapshot with a configuration    *)
(* block of its own channel that is not later than the checkpoint, and a   *)
(* target configuration of the mapping's network (import.go:71-102).       *)
InputsBelongTogether ==
  /\ pc = "paired" => Consistent
  /\ pc = "failed" => ~Consistent

(* No snapshot and no source configuration is silently left out: those     *)
(* reported are all that were given, each once (main.go:70, import.go:74). *)
NoneIgnored ==
  pc = "paired" =>
    /\ Len(sources) = Cardinality(Uses("snapshot"))
    /\ Len(sources) = Cardinality(Uses("source-config"))
    /\ {[channel |-> s.channel, path |-> s.config] : s \in ToSet(sources)}
         = {[channel |-> a.channel, path |-> a.path] : a \in Args("source-config")}

(* The resolved configuration, which the report contains and operators     *)
(* save for startup, is accepted as a target configuration again, as the   *)
(* configuration it was resolved to and with the same bytes; and           *)
(* signatures, serialization order and the block around the configuration  *)
(* that was read leave no trace in it (config.go:80-94, import.go:286).    *)
ResolvedIsReusable ==
  pc = "paired" =>
    \A resolved \in Configs :
      LET output == Encode([target EXCEPT !.config = resolved])
          again == Decode(output)
      IN /\ Decodable(output)
         /\ again.config = resolved
         /\ again.channel = target.channel
         /\ Encode(again) = output
         /\ \A p \in Paths :
              LET other == Decode(FileAt(p))
              IN Decodable(FileAt(p)) /\ other.envelope.header = target.envelope.header =>
                   Encode([other EXCEPT !.config = resolved]) = output
=============================================================================
