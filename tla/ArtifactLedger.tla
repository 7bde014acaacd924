--------------------------- MODULE ArtifactLedger ---------------------------
(***************************************************************************)
(* What ADR-0008 promises of the artifacts of the ticket sessions: a store *)
(* that is written atomically and answers with exactly what was put or not *)
(* at all, and checkpoints that refer to nothing else.  ArtifactStore      *)
(* implements it with files, temporary files and renames.                  *)
(***************************************************************************)
EXTENDS Naturals

CONSTANTS
  Processes,  \* processes of the orchestrator, each at work on one session
  Contents,   \* artifacts; an artifact's id is the hash of its content
  Names,      \* logical names of artifacts
  NoContent   \* no answer, or no artifact yet; not in Contents

VARIABLES
  stored,   \* the artifacts that can be read
  lost,     \* those that something else than the program took away
  current,  \* the session each process works with
  durable,  \* the session as its last durable checkpoint has it
  read      \* what the last get of each process answered, while it is used

vars == <<stored, lost, current, durable, read>>

NewSession ==
  [refs |-> {}, active |-> [n \in Names |-> [version |-> 0, id |-> NoContent]]]

\* The checkpoint of a node that put these artifacts, one of them under a
\* logical name: its next version, and the earlier ones stay referred to.
Extended(session, name, ids, id) ==
  [refs   |-> session.refs \cup ids,
   active |-> [session.active EXCEPT
                 ![name] = [version |-> @.version + 1, id |-> id]]]

Init ==
  /\ stored = {} /\ lost = {}
  /\ current = [p \in Processes |-> NewSession]
  /\ durable = current
  /\ read = [p \in Processes |-> NoContent]

Put(c) ==
  /\ stored' = stored \cup {c} /\ lost' = lost \ {c}
  /\ UNCHANGED <<current, durable, read>>

Get(p, c) ==
  /\ c \in current[p].refs
  /\ read' = [read EXCEPT ![p] = IF c \in stored THEN c ELSE NoContent]
  /\ UNCHANGED <<stored, lost, current, durable>>

Drop(p) ==
  /\ read' = [read EXCEPT ![p] = NoContent]
  /\ UNCHANGED <<stored, lost, current, durable>>

Commit(p, name, ids, id) ==
  /\ id \in ids /\ ids \subseteq stored \cup lost
  /\ current' = [current EXCEPT ![p] = Extended(@, name, ids, id)]
  /\ UNCHANGED <<stored, lost, durable, read>>

Save(p) ==
  /\ durable' = [durable EXCEPT ![p] = current[p]]
  /\ UNCHANGED <<stored, lost, current, read>>

Forget(p) ==
  /\ current' = [current EXCEPT ![p] = durable[p]]
  /\ read' = [read EXCEPT ![p] = NoContent]
  /\ UNCHANGED <<stored, lost, durable>>

\* Damage to the disk, or a power loss, which also ends every process.
Lose(S) ==
  /\ stored' = stored \ S /\ lost' = lost \cup S
  /\ \/ UNCHANGED <<current, read>>
     \/ current' = durable /\ read' = [p \in Processes |-> NoContent]
  /\ UNCHANGED durable

Next ==
  \/ \E c \in Contents : Put(c)
  \/ \E S \in SUBSET Contents : Lose(S)
  \/ \E p \in Processes :
       \/ \E c \in Contents : Get(p, c)
       \/ \E name \in Names, ids \in SUBSET Contents : \E id \in ids :
            Commit(p, name, ids, id)
       \/ Drop(p) \/ Save(p) \/ Forget(p)

Spec == Init /\ [][Next]_vars
-----------------------------------------------------------------------------
\* Every reference of a checkpoint can be followed, but to what was taken away.
Resolves(session) ==
  /\ session.refs \subseteq stored \cup lost
  /\ \A n \in Names :
       session.active[n].version > 0 => session.active[n].id \in session.refs
RefsResolve ==
  \A p \in Processes : Resolves(current[p]) /\ Resolves(durable[p])

\* docs/langgraph-ticket-graph.md: past versions are not deleted.  A version
\* of the durable session keeps its content, and what a version referred to
\* stays referred to.
VersionsStable ==
  [][\A p \in Processes :
       /\ durable[p].refs \subseteq durable'[p].refs
       /\ \A n \in Names :
            durable'[p].active[n].version = durable[p].active[n].version
              => durable'[p].active[n].id = durable[p].active[n].id]_vars
=============================================================================
