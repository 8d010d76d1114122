-------------------------- MODULE MCInputSelection --------------------------
(***************************************************************************)
(* Command lines for files of two source channels, 1 and 2, and a target   *)
(* network 7: all sequences of up to four arguments that concern channels, *)
(* with fixed others, and all sequences of up to four of the others.       *)
(***************************************************************************)
EXTENDS InputSelection

CONSTANTS c1, c2, h1, h2, h3, h4, sig

Envelope(channel, config, header) ==
  [type |-> "CONFIG", header |-> header, channel |-> channel, config |-> config,
   application |-> TRUE, encoding |-> "deterministic", signature |-> NoName]

Block(number, channel) == [kind |-> "block", number |-> number, data |-> <<Envelope(channel, c1, IF channel = 1 THEN h2 ELSE h3)>>]

InitialTarget == Envelope(7, c1, h1)

Disk ==
  [mapping |-> [kind |-> "mapping", network |-> 7],
   otherNetwork |-> [kind |-> "mapping", network |-> 8],
   snapshot1 |-> [kind |-> "snapshot", channel |-> 1, last |-> 5],
   snapshot2 |-> [kind |-> "snapshot", channel |-> 2, last |-> 5],
   config1 |-> Block(5, 1),
   config2 |-> Block(0, 2),
   late1 |-> Block(6, 1),
   envelope1 |-> [kind |-> "envelope", data |-> <<Envelope(1, c1, h2)>>],
   crowded1 |-> [kind |-> "block", number |-> 5, data |-> <<Envelope(1, c1, h2), Envelope(1, c1, h2)>>],
   target |-> [kind |-> "envelope", data |-> <<InitialTarget>>],
   signedTarget |-> [kind |-> "block", number |-> 0,
                     data |-> <<[InitialTarget EXCEPT !.encoding = "other", !.signature = sig, !.config = c2]>>],
   orderer |-> [kind |-> "envelope", data |-> <<[InitialTarget EXCEPT !.application = FALSE]>>],
   update |-> [kind |-> "envelope", data |-> <<[InitialTarget EXCEPT !.type = "CONFIG_UPDATE", !.header = h4]>>],
   missing |-> Unreadable]

MCPaths == DOMAIN Disk
MCFileAt(p) == Disk[p]

Arg(flag, channel, path) == [flag |-> flag, channel |-> channel, path |-> path]

Sequences(S, n) == UNION {[1..m -> S] : m \in 0..n}

PairArgs ==
  {Arg("snapshot", 1, "snapshot1"), Arg("snapshot", 2, "snapshot2"), Arg("snapshot", 1, "snapshot2"),
   Arg("snapshot", 2, "missing"), Arg("snapshot", NoName, NoName),
   Arg("source-config", 1, "config1"), Arg("source-config", 2, "config2"), Arg("source-config", 1, "config2"),
   Arg("source-config", 1, "late1"), Arg("stray", NoName, "config1")}

(* Files that are rejected wherever they come.                             *)
Unfit == {<<Arg("snapshot", 1, "snapshot1"), Arg("source-config", 1, p)>> :
            p \in {"envelope1", "crowded1", "missing", "mapping"}}

PlainArgs ==
  {Arg("mapping", NoName, p) : p \in {"mapping", "otherNetwork", "target", NoName}}
  \union {Arg("target-config", NoName, p) : p \in {"target", "signedTarget", "orderer", "update"}}
  \union {Arg("database-url", NoName, "url"), Arg("database-url", NoName, "malformed")}

Pairs == <<Arg("snapshot", 1, "snapshot1"), Arg("source-config", 1, "config1")>>

Plain == <<Arg("mapping", NoName, "mapping"), Arg("target-config", NoName, "target"),
           Arg("database-url", NoName, "url")>>

MCLines ==
  {[command |-> "import", args |-> pairs \o Plain] : pairs \in Sequences(PairArgs, 4) \union Unfit}
  \union {[command |-> "import", args |-> <<Pairs[1]>> \o plain \o <<Pairs[2]>>] : plain \in Sequences(PlainArgs, 4)}
  \union {[command |-> "import", args |-> Pairs \o [Plain EXCEPT ![i].path = "missing"]] : i \in {1, 2}}
  \union {[command |-> c, args |-> Plain \o Pairs] : c \in {"import", "export"}}
=============================================================================
