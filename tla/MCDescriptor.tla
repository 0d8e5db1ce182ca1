---------------------------- MODULE MCDescriptor ----------------------------
EXTENDS Descriptor, TLC

Box(role, name, cpus, memory) == [role |-> role, name |-> name, cpus |-> cpus, memory |-> memory]
Data(name, q) == Box("data-plane", name, q, IF q \in Unread THEN q ELSE 2 * q)
Coordinator(name, q) == Box("control-plane", name, q, IF q \in Unread THEN q ELSE 2 * q)
Knob(name) == [kind |-> "knob", of |-> name]

MCNames == {"tm", "jm", "a-tm", "t-jm"}
\* spate-bench-sut-a-tm ends in tm, spate-bench-sut-jm in t-jm.
MCEnds == {<<n, n>> : n \in MCNames} \union {<<"tm", "a-tm">>, <<"jm", "t-jm">>, <<"t-jm", "jm">>}
MCQuantities == {NoNumber, DockerOnly, 0, 2, 3, 4}
MCLayouts ==
  {<<Data("tm", 2)>>, <<Data("tm", 3)>>, <<Data("tm", 2), Coordinator("jm", 1)>>,
   <<Coordinator("jm", 1), Data("tm", 2)>>, <<Data("tm", 2), Coordinator("tm", 2)>>,
   <<Data("tm", 2), Coordinator("a-tm", 1)>>, <<Data("t-jm", 2), Coordinator("jm", 1)>>,
   <<Coordinator("jm", NoNumber), Data("tm", 2)>>, <<Data("tm", NoNumber)>>,
   <<Coordinator("jm", 1)>>, <<Coordinator("jm", 2), Data("tm", 3)>>, <<Data("tm", 1), Data("jm", 1)>>}
  \union {<<Data("tm", 2), Box("control-plane", "jm", c, m)>> :  \* no limit, below a minimum,
            c \in {0, 1, 4}, m \in {0, 1, 2, 3, DockerOnly}}        \* in no whole pages
  \union {<<Box("data-plane", "tm", c, m)>> : c \in {0, 2}, m \in {0, 4}}
MCKnobNames == {"rows", "buffer", "gone"}
MCEnvs ==
  {{}, {Knob("rows")}, {Knob("rows"), Knob("buffer")}, {Knob("gone")},
   {[kind |-> "container", of |-> "jm"]}, {[kind |-> "fixed", of |-> NoName]},
   {[kind |-> "unknown", of |-> NoName]}}
MCKnobs ==
  {"rows" :> 2 @@ "buffer" :> 3, "rows" :> 2 @@ "buffer" :> 2, "rows" :> 1,
   "buffer" :> Table @@ "rows" :> 2, "buffer" :> Text @@ "rows" :> 2,
   "buffer" :> Braced @@ "rows" :> 2}
Rule(knob, exceeds, at_least, why) ==
  [knob |-> knob, exceeds |-> exceeds, at_least |-> at_least, why |-> why]
MCRules ==
  {{}, {Rule("buffer", "rows", NoNumber, TRUE)}, {Rule("rows", NoName, 2, TRUE)},
   {Rule("rows", NoName, NoNumber, TRUE)}, {Rule("buffer", "rows", 1, TRUE)},
   {Rule("rows", "rows", NoNumber, TRUE)}, {Rule("buffer", "rows", NoNumber, FALSE)}}
MCPaths == {"none", "file", "padded", "bad"}
MCOverrides == {NoKnobs, "rows" :> 3, "buffer" :> 4, "buffer" :> Braced, "gone" :> 1}

MCVariant(id, default) ==
  [id |-> id, default |-> default, approach |-> "realistic", unshipped |-> FALSE,
   wire |-> "canonical", env |-> {}, knobs |-> "rows" :> 2 @@ "buffer" :> 3]
MCBase ==
  [status |-> "active", planned |-> FALSE, version |-> "command", delivery |-> "at-least-once",
   discloses |-> TRUE, cpus |-> 2, memory |-> 4,
   containers |-> <<Data("tm", 2), Coordinator("jm", 1)>>,
   env |-> {Knob("rows"), Knob("buffer")},
   constraints |-> {Rule("buffer", "rows", NoNumber, TRUE)},
   arm_sql |-> "none", arm_teardown_sql |-> "none", attribution_table |-> "none",
   variants |-> <<MCVariant("a", TRUE), MCVariant("b", FALSE)>>]
=============================================================================
