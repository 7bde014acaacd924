---------------------------- MODULE ArtifactStore ----------------------------
(***************************************************************************)
(* FileArtifactStore.put and get, call by call, under the nodes of the     *)
(* ticket graph that put artifacts, commit checkpoints with references to  *)
(* them and read them again.  Several processes - the daemon, a run from   *)
(* the command line - share one directory, each at work on a ticket of its *)
(* own; each may fail or die between any two calls, the power may go, and  *)
(* a file may be damaged.                                                  *)
(*                                                                         *)
(* An artifact's id is the hash of its content, taken to be unique, so a   *)
(* content is its own id and the name of its file.  Temporary files have   *)
(* random names: one that a dead process leaves behind is in nobody's way  *)
(* and not part of the state.  dry_run, where store and checkpoints live   *)
(* and die together in memory, is not modelled.                            *)
(***************************************************************************)
EXTENDS Naturals, Sequences, SequencesExt

CONSTANTS
  Processes,   \* processes of the orchestrator, each at work on one session
  Contents,    \* artifacts
  Names,       \* logical names of artifacts
  NoContent,   \* no answer, or no artifact yet
  MaxPuts,     \* bound: the artifacts a node puts
  MaxVersion   \* bound: the versions of a logical name

ASSUME StoreAssumption ==
  NoContent \notin Contents /\ Names # {} /\ MaxPuts \in Nat /\ MaxVersion \in Nat

VARIABLES
  file,     \* <id>.json: absent, part, cached, whole or damaged
  temp,     \* the temporary file of each process: none, part, cached, whole
  pc,       \* idle, work, put, write, sync, replace or raised
  node,     \* what the node of each process has put and has still to put
  thread,   \* the session each process works with
  saved,    \* the session in its newest durable checkpoint
  read,     \* what the last get of a node at work answered
  spoiled   \* ghost: artifacts whose file something else took or damaged

vars == <<file, temp, pc, node, thread, saved, read, spoiled>>
sessions == <<thread, saved, read>>

\* A reader sees what the operating system has cached; what it has cached is
\* gone with the power.
Complete == {"cached", "whole"}

NewSession ==
  [refs |-> {}, active |-> [n \in Names |-> [version |-> 0, id |-> NoContent]]]
NoNode == [name |-> CHOOSE n \in Names : TRUE, todo |-> <<>>, made |-> <<>>]

Init ==
  /\ file = [c \in Contents |-> "absent"]
  /\ temp = [p \in Processes |-> "none"]
  /\ pc = [p \in Processes |-> "idle"]
  /\ node = [p \in Processes |-> NoNode]
  /\ thread = [p \in Processes |-> NewSession] /\ saved = thread
  /\ read = [p \in Processes |-> NoContent]
  /\ spoiled = {}

Goto(p, label) == pc' = [pc EXCEPT ![p] = label]
-----------------------------------------------------------------------------
(* A node reads the artifacts it was given, works, and puts its own. *)

Start(p) ==
  /\ pc[p] = "idle"
  /\ Goto(p, "work")
  /\ UNCHANGED <<file, temp, node, sessions, spoiled>>

\* Mutant: the content is returned without being compared with its id.
AnswerUnverified(c) ==
  CASE file[c] \in Complete -> {c}
    [] file[c] = "damaged" -> Contents
    [] OTHER -> {NoContent}

\* The content, or an ArtifactError: no file, no JSON, another hash.
Answer(c) == IF file[c] \in Complete THEN {c} ELSE {NoContent}

\* get; an error leaves the node, since no handler expects an ArtifactError.
Read(p) ==
  /\ pc[p] = "work"
  /\ \E c \in thread[p].refs : \E answer \in Answer(c) :
       /\ read' = [read EXCEPT ![p] = answer]
       /\ Goto(p, IF answer = NoContent THEN "raised" ELSE "work")
  /\ UNCHANGED <<file, temp, node, thread, saved, spoiled>>

\* The artifacts of a step and its output, or an answer.
Produce(p) ==
  /\ pc[p] = "work"
  /\ \E name \in Names, todo \in SeqOf(Contents, MaxPuts) :
       /\ todo # <<>>
       /\ thread[p].active[name].version < MaxVersion
       /\ node' = [node EXCEPT ![p] = [name |-> name, todo |-> todo, made |-> <<>>]]
  /\ read' = [read EXCEPT ![p] = NoContent]
  /\ Goto(p, "put")
  /\ UNCHANGED <<file, temp, thread, saved, spoiled>>
-----------------------------------------------------------------------------
(* put, for the first artifact that is left. *)

Putting(p) == Head(node[p].todo)

\* _deduplicate_refs keeps the first reference to an artifact.
Returned(p) ==
  node' = [node EXCEPT ![p] =
    [name |-> @.name,
     todo |-> Tail(@.todo),
     made |-> IF Contains(@.made, Putting(p)) THEN @.made
              ELSE Append(@.made, Putting(p))]]

AtPut(p) == pc[p] = "put" /\ node[p].todo # <<>>

\* Whatever exists is taken for the artifact.
PutExisting(p) ==
  /\ AtPut(p)
  /\ file[Putting(p)] # "absent"
  /\ Returned(p)
  /\ UNCHANGED <<file, temp, pc, sessions, spoiled>>

MakeTemporary(p) ==
  /\ AtPut(p)
  /\ file[Putting(p)] = "absent"
  /\ temp' = [temp EXCEPT ![p] = "part"]
  /\ Goto(p, "write")
  /\ UNCHANGED <<file, node, sessions, spoiled>>

\* Mutant: the envelope is written to the artifact's own file.
WriteInPlace(p) ==
  /\ pc[p] = "write"
  /\ temp' = [temp EXCEPT ![p] = "cached"]
  /\ file' = [file EXCEPT ![Putting(p)] = "part"]
  /\ Goto(p, "sync")
  /\ UNCHANGED <<node, sessions, spoiled>>

\* write and flush.
Write(p) ==
  /\ pc[p] = "write"
  /\ temp' = [temp EXCEPT ![p] = "cached"]
  /\ Goto(p, "sync")
  /\ UNCHANGED <<file, node, sessions, spoiled>>

\* Mutant: flush is taken for enough.
SyncForgotten(p) ==
  /\ pc[p] = "sync"
  /\ Goto(p, "replace")
  /\ UNCHANGED <<file, temp, node, sessions, spoiled>>

\* fsync and close.
Sync(p) ==
  /\ pc[p] = "sync"
  /\ temp' = [temp EXCEPT ![p] = "whole"]
  /\ Goto(p, "replace")
  /\ UNCHANGED <<file, node, sessions, spoiled>>

\* os.replace: readers see the old file, if another process has been faster,
\* or the new one.  The directory is not synchronised.
Replace(p) ==
  /\ pc[p] = "replace"
  /\ file' = [file EXCEPT ![Putting(p)] = temp[p]]
  /\ spoiled' = spoiled \ {Putting(p)}
  /\ temp' = [temp EXCEPT ![p] = "none"]
  /\ Returned(p)
  /\ Goto(p, "put")
  /\ UNCHANGED sessions
-----------------------------------------------------------------------------
(* Checkpoints and failures. *)

\* Mutant: a version points to its label.
ExtendedByLabel(session, name, made) ==
  [refs   |-> session.refs \cup ToSet(made),
   active |-> [session.active EXCEPT ![name] = [version |-> @.version + 1, id |-> name]]]

\* The references of the session and the active artifacts after a node.
Extended(session, name, made) ==
  [refs   |-> session.refs \cup ToSet(made),
   active |-> [session.active EXCEPT
                 ![name] = [version |-> @.version + 1, id |-> Last(made)]]]

\* The node returns: its references become part of the session.
Commit(p) ==
  /\ pc[p] = "put" /\ node[p].todo = <<>>
  /\ thread' = [thread EXCEPT ![p] = Extended(@, node[p].name, node[p].made)]
  /\ node' = [node EXCEPT ![p] = NoNode]
  /\ Goto(p, "idle")
  /\ UNCHANGED <<file, temp, saved, read, spoiled>>

\* The checkpointer writes in the background.
Flush(p) ==
  /\ saved[p] # thread[p]
  /\ saved' = [saved EXCEPT ![p] = thread[p]]
  /\ UNCHANGED <<file, temp, pc, node, thread, read, spoiled>>

\* An ArtifactError, an OSError of put, whose finally removes the temporary
\* file, another exception of the node, or the death of the process: the next
\* run goes on from the last checkpoint.
Abandon(p) ==
  /\ pc[p] # "idle"
  /\ thread' = [thread EXCEPT ![p] = saved[p]]
  /\ temp' = [temp EXCEPT ![p] = "none"]
  /\ node' = [node EXCEPT ![p] = NoNode]
  /\ read' = [read EXCEPT ![p] = NoContent]
  /\ Goto(p, "idle")
  /\ UNCHANGED <<file, saved, spoiled>>

\* The power goes: cached data is lost, and a rename may be undone, whether or
\* not the operating system has had the time to write the directory back.
\* Checkpoints are synchronised when SQLite commits them.
PowerLoss ==
  \E gone \in SUBSET Contents :
    /\ file' = [c \in Contents |->
                  IF c \in gone THEN "absent"
                  ELSE IF file[c] = "cached" THEN "part" ELSE file[c]]
    /\ spoiled' = spoiled \cup {c \in gone : file[c] # "absent"}
    /\ thread' = saved
    /\ temp' = [p \in Processes |-> "none"]
    /\ pc' = [p \in Processes |-> "idle"]
    /\ node' = [p \in Processes |-> NoNode]
    /\ read' = [p \in Processes |-> NoContent]
    /\ UNCHANGED saved

\* Someone edits or deletes a file.
Damage(c) ==
  /\ file[c] # "absent"
  /\ file' \in {[file EXCEPT ![c] = "damaged"], [file EXCEPT ![c] = "absent"]}
  /\ spoiled' = spoiled \cup {c}
  /\ UNCHANGED <<temp, pc, node, sessions>>
-----------------------------------------------------------------------------
Next ==
  \/ \E p \in Processes :
       \/ Start(p) \/ Read(p) \/ Produce(p)
       \/ PutExisting(p) \/ MakeTemporary(p) \/ Write(p) \/ Sync(p) \/ Replace(p)
       \/ Commit(p) \/ Flush(p) \/ Abandon(p)
  \/ \E c \in Contents : Damage(c)
  \/ PowerLoss

Spec == Init /\ [][Next]_vars
-----------------------------------------------------------------------------
(* Properties. *)

Session ==
  [refs : SUBSET Contents,
   active : [Names -> [version : 0 .. MaxVersion, id : Contents \cup {NoContent}]]]

\* The type of every variable.
TypeOK ==
  /\ file \in [Contents -> {"absent", "part", "cached", "whole", "damaged"}]
  /\ spoiled \subseteq Contents
  /\ temp \in [Processes -> {"none", "part", "cached", "whole"}]
  /\ pc \in [Processes -> {"idle", "work", "put", "write", "sync", "replace", "raised"}]
  /\ node \in [Processes -> [name : Names, todo : Seq(Contents), made : Seq(Contents)]]
  /\ thread \in [Processes -> Session] /\ saved \in [Processes -> Session]
  /\ read \in [Processes -> Contents \cup {NoContent}]

Readable == {c \in Contents : file[c] \in Complete}

\* Every artifact that a checkpoint refers to can be read, whatever was cut
\* short by whom, but for what someone took away or a power loss undid; and a
\* file that is there is whole, so that put may take it for the artifact.
ReferencesResolve ==
  /\ \A p \in Processes : thread[p].refs \cup saved[p].refs \subseteq Readable \cup spoiled
  /\ \A c \in Contents \ spoiled : file[c] \in {"absent", "whole"}

\* Behind files, renames and checkpoints in the background is a store that is
\* written in single steps, answers with what was put or not at all, and in
\* which a version of an artifact never changes.
Ledger == INSTANCE ArtifactLedger WITH
  stored <- Readable, lost <- spoiled, current <- thread, durable <- saved
RefinesLedger == Ledger!Spec
=============================================================================
