----------------------------- MODULE Namespace -----------------------------
(***************************************************************************)
(* What a database promises its clients: a set of collections and their    *)
(* documents, on which every running command takes effect in single steps. *)
(* A write creates its collection if it is missing; a document is          *)
(* acknowledged only when it is stored; collections and documents          *)
(* disappear only by a drop that is running.                               *)
(***************************************************************************)
CONSTANTS Clients, Colls

VARIABLES colls,  \* the existing collections
          docs,   \* the stored documents: <<collection, client that inserted it>>
          acked,  \* the documents whose insert was acknowledged
          cmd     \* cmd[c]: the command that c runs, and its collection

nsVars == <<colls, docs, acked, cmd>>

Kinds == {"create", "write", "read", "drop", "dropDatabase"}

NoCmd == [kind |-> "none", coll |-> "none"]

Of(l, s) == {x \in s : x[1] = l}

Running(c, kinds) == cmd[c].kind \in kinds

Ended(c) == cmd' = [cmd EXCEPT ![c] = NoCmd]

Init ==
  /\ colls = {} /\ docs = {} /\ acked = {}
  /\ cmd = [c \in Clients |-> NoCmd]

Begin(c) ==
  /\ Running(c, {"none"})
  /\ \E k \in Kinds, l \in Colls : cmd' = [cmd EXCEPT ![c] = [kind |-> k, coll |-> l]]
  /\ UNCHANGED <<colls, docs, acked>>

\* The answer to a command, successful or not, that changes nothing (any more).
End(c) ==
  /\ ~Running(c, {"none"})
  /\ Ended(c)
  /\ UNCHANGED <<colls, docs, acked>>

Create(c) ==
  /\ Running(c, {"create", "write"})
  /\ cmd[c].coll \notin colls
  /\ colls' = colls \cup {cmd[c].coll}
  /\ UNCHANGED cmd \/ Ended(c)
  /\ UNCHANGED <<docs, acked>>

\* The answer ok may be lost, the document is stored all the same.
Insert(c) ==
  /\ Running(c, {"write"})
  /\ colls' = colls \cup {cmd[c].coll}
  /\ docs' = docs \cup {<<cmd[c].coll, c>>}
  /\ acked' = acked \/ acked' = acked \cup {<<cmd[c].coll, c>>}
  /\ Ended(c)

Drop(c) ==
  /\ Running(c, {"drop"})
  /\ cmd[c].coll \in colls
  /\ colls' = colls \ {cmd[c].coll}
  /\ docs' = docs \ Of(cmd[c].coll, docs)
  /\ acked' = acked \ Of(cmd[c].coll, acked)
  /\ UNCHANGED cmd

DropDatabase(c) ==
  /\ Running(c, {"dropDatabase"})
  /\ colls' = {} /\ docs' = {} /\ acked' = {}
  /\ Ended(c)

Next ==
  \E c \in Clients :
    Begin(c) \/ End(c) \/ Create(c) \/ Insert(c) \/ Drop(c) \/ DropDatabase(c)

Spec == Init /\ [][Next]_nsVars

=============================================================================
