------------------------ MODULE ArtifactStoreProofs ------------------------
(***************************************************************************)
(* ArtifactStore keeps its references and implements ArtifactLedger, for   *)
(* any processes and artifacts; and past versions are stable.              *)
(***************************************************************************)
EXTENDS ArtifactStore, TLAPS

InPut(p) == pc[p] \in {"put", "write", "sync", "replace"}

\* Nothing but what was synchronised is renamed.
Renamed ==
  /\ \A p \in Processes : pc[p] = "replace" => temp[p] = "whole"
  /\ \A c \in Contents : file[c] # "cached"

\* What a node has put is there, it puts something, and it may be committed.
Nodes ==
  \A p \in Processes :
    /\ ToSet(node[p].made) \subseteq Readable \cup spoiled
    /\ InPut(p) => /\ node[p].todo # <<>> \/ node[p].made # <<>>
                   /\ thread[p].active[node[p].name].version < MaxVersion
    /\ pc[p] \in {"write", "sync", "replace"} => node[p].todo # <<>>

\* The durable session is an earlier state of the current one.
Behind ==
  \A p \in Processes :
    /\ saved[p].refs \subseteq thread[p].refs
    /\ \A n \in Names :
         /\ saved[p].active[n].version <= thread[p].active[n].version
         /\ saved[p].active[n].version = thread[p].active[n].version
              => saved[p].active[n].id = thread[p].active[n].id

IInv == TypeOK /\ ReferencesResolve /\ Renamed /\ Nodes /\ Behind
-----------------------------------------------------------------------------
(* Types *)

Label == {"idle", "work", "put", "write", "sync", "replace", "raised"}
Node == [name : Names, todo : Seq(Contents), made : Seq(Contents)]

LEMMA NoNodeType == NoNode \in Node /\ ToSet(NoNode.made) = {}
<1>1. (CHOOSE n \in Names : TRUE) \in Names
  BY StoreAssumption
<1>2. <<>> \in Seq(Contents)
  OBVIOUS
<1> QED
  BY <1>1, <1>2 DEF NoNode, Node, ToSet

LEMMA NewSessionType == NewSession \in Session
  BY StoreAssumption DEF NewSession, Session

LEMMA TypeInit == Init => TypeOK
<1> SUFFICES ASSUME Init PROVE TypeOK
  OBVIOUS
<1>1. /\ node \in [Processes -> Node] /\ thread \in [Processes -> Session]
      /\ saved \in [Processes -> Session]
  BY NoNodeType, NewSessionType DEF Init
<1> QED
  BY <1>1 DEF Init, TypeOK, Node

\* The first artifact that is left, put, leaves a node.
LEMMA ReturnedType ==
  ASSUME TypeOK, NEW p \in Processes, node[p].todo # <<>>, Returned(p)
  PROVE  /\ node' \in [Processes -> Node]
         /\ Putting(p) \in Contents
         /\ \A q \in Processes \ {p} : node'[q] = node[q]
         /\ node'[p].name = node[p].name
         /\ node'[p].made # <<>>
         /\ ToSet(node'[p].made) \subseteq ToSet(node[p].made) \cup {Putting(p)}
<1> DEFINE made == node[p].made
           kept == IF Contains(made, Putting(p)) THEN made ELSE Append(made, Putting(p))
<1>1. node \in [Processes -> Node] /\ node[p] \in Node
  BY DEF TypeOK, Node
<1>2. /\ node[p].todo \in Seq(Contents) /\ made \in Seq(Contents) /\ node[p].name \in Names
  BY <1>1 DEF Node
<1>3. Putting(p) \in Contents /\ Tail(node[p].todo) \in Seq(Contents)
  BY <1>2 DEF Putting
<1>4. kept \in Seq(Contents)
  BY <1>2, <1>3
<1>5. kept # <<>> /\ ToSet(kept) \subseteq ToSet(made) \cup {Putting(p)}
  <2>1. CASE Contains(made, Putting(p))
    BY <1>2, <2>1 DEF Contains
  <2>2. CASE ~Contains(made, Putting(p))
    <3>1. kept = Append(made, Putting(p))
      BY <2>2
    <3>2. /\ DOMAIN kept = 1 .. Len(made) + 1 /\ Len(made) \in Nat
          /\ DOMAIN made = 1 .. Len(made)
          /\ \A i \in 1 .. Len(made) : kept[i] = made[i]
          /\ kept[Len(made) + 1] = Putting(p)
      BY <1>2, <1>3, <3>1
    <3>3. ASSUME NEW i \in DOMAIN kept
          PROVE  kept[i] \in ToSet(made) \cup {Putting(p)}
      BY <3>2 DEF ToSet
    <3>4. kept # <<>>
      BY <3>2
    <3> QED
      BY <3>3, <3>4 DEF ToSet
  <2> QED
    BY <2>1, <2>2
<1>6. node' = [node EXCEPT ![p] = [name |-> node[p].name, todo |-> Tail(node[p].todo),
                                  made |-> kept]]
  BY DEF Returned
<1> HIDE DEF kept
<1>7. [name |-> node[p].name, todo |-> Tail(node[p].todo), made |-> kept] \in Node
  BY <1>2, <1>3, <1>4 DEF Node
<1> QED
  BY <1>1, <1>3, <1>5, <1>6, <1>7

\* What a commit makes of a session.
LEMMA ExtendedType ==
  ASSUME NEW session \in Session, NEW name \in Names, NEW made \in Seq(Contents),
         made # <<>>, session.active[name].version < MaxVersion
  PROVE  /\ Extended(session, name, made) \in Session
         /\ Extended(session, name, made).refs = session.refs \cup ToSet(made)
         /\ Last(made) \in ToSet(made) /\ ToSet(made) \subseteq Contents
         /\ \A n \in Names :
              \/ Extended(session, name, made).active[n] = session.active[n]
              \/ /\ n = name
                 /\ Extended(session, name, made).active[n].version
                      = session.active[n].version + 1
<1>1. Last(made) \in ToSet(made) /\ ToSet(made) \subseteq Contents
  BY DEF Last, ToSet
<1>2. /\ session.refs \subseteq Contents
      /\ session.active \in [Names -> [version : 0 .. MaxVersion, id : Contents \cup {NoContent}]]
  BY DEF Session
<1> DEFINE next == [version |-> session.active[name].version + 1, id |-> Last(made)]
           active == [session.active EXCEPT ![name] = next]
<1>3. next \in [version : 0 .. MaxVersion, id : Contents \cup {NoContent}]
  <2>1. session.active[name].version \in 0 .. MaxVersion
    BY <1>2
  <2>2. session.active[name].version + 1 \in 0 .. MaxVersion
    BY <2>1, StoreAssumption
  <2> QED
    BY <1>1, <2>2
<1>4. active \in [Names -> [version : 0 .. MaxVersion, id : Contents \cup {NoContent}]]
  <2> HIDE DEF next
  <2> QED
    BY <1>2, <1>3
<1>5. Extended(session, name, made) = [refs |-> session.refs \cup ToSet(made), active |-> active]
  BY DEF Extended
<1>6. \A n \in Names : \/ active[n] = session.active[n]
                       \/ n = name /\ active[n].version = session.active[n].version + 1
  BY <1>2
<1> HIDE DEF active
<1>7. Extended(session, name, made) \in Session
  BY <1>1, <1>2, <1>4, <1>5 DEF Session
<1>8. /\ Extended(session, name, made).refs = session.refs \cup ToSet(made)
      /\ Extended(session, name, made).active = active
  BY <1>5
<1> QED
  BY <1>1, <1>6, <1>7, <1>8

\* A step of one process that leaves the files and sessions alone.
LEMMA QuietType ==
  ASSUME TypeOK, NEW p \in Processes, NEW label \in Label, Goto(p, label),
         temp' = temp \/ (\E t \in {"none", "part", "cached", "whole"} :
                            temp' = [temp EXCEPT ![p] = t]),
         node' \in [Processes -> Node],
         read' \in [Processes -> Contents \cup {NoContent}],
         thread' \in [Processes -> Session],
         UNCHANGED <<file, saved, spoiled>>
  PROVE  TypeOK'
  BY DEF TypeOK, Goto, Label, Node

LEMMA TypeStep ==
  ASSUME TypeOK, Renamed, Nodes, [Next]_vars
  PROVE  TypeOK'
<1> USE DEF sessions
<1>1. ASSUME NEW p \in Processes, Start(p) \/ MakeTemporary(p) \/ Write(p) \/ Sync(p)
      PROVE  TypeOK'
  BY <1>1, QuietType DEF Start, MakeTemporary, Write, Sync, TypeOK, Label, Node
<1>2. ASSUME NEW p \in Processes, Read(p)
      PROVE  TypeOK'
  <2>1. PICK c \in thread[p].refs :
          \E answer \in Answer(c) :
            /\ read' = [read EXCEPT ![p] = answer]
            /\ Goto(p, IF answer = NoContent THEN "raised" ELSE "work")
    BY <1>2 DEF Read
  <2>2. PICK answer \in Answer(c) :
          /\ read' = [read EXCEPT ![p] = answer]
          /\ Goto(p, IF answer = NoContent THEN "raised" ELSE "work")
    BY <2>1
  <2>3. answer \in Contents \cup {NoContent}
    BY <2>2 DEF Answer, TypeOK, Session
  <2>4. read' \in [Processes -> Contents \cup {NoContent}]
    BY <2>2, <2>3 DEF TypeOK
  <2> QED
    BY <1>2, <2>2, <2>4, QuietType DEF Read, TypeOK, Label, Node
<1>3. ASSUME NEW p \in Processes, Produce(p)
      PROVE  TypeOK'
  <2>1. PICK name \in Names, todo \in SeqOf(Contents, MaxPuts) :
          node' = [node EXCEPT ![p] = [name |-> name, todo |-> todo, made |-> <<>>]]
    BY <1>3 DEF Produce
  <2>2. todo \in Seq(Contents) /\ <<>> \in Seq(Contents)
    BY StoreAssumption DEF SeqOf
  <2>3. node' \in [Processes -> Node]
    BY <2>1, <2>2 DEF TypeOK, Node
  <2>4. Goto(p, "put") /\ UNCHANGED <<file, temp, thread, saved, spoiled>>
        /\ read' = [read EXCEPT ![p] = NoContent]
    BY <1>3 DEF Produce
  <2> QED
    BY <2>3, <2>4, QuietType DEF TypeOK, Label
<1>4. ASSUME NEW p \in Processes, PutExisting(p)
      PROVE  TypeOK'
  <2>1. node' \in [Processes -> Node]
    BY <1>4, ReturnedType DEF PutExisting, AtPut
  <2> QED
    BY <1>4, <2>1 DEF PutExisting, TypeOK, Node
<1>5. ASSUME NEW p \in Processes, Replace(p)
      PROVE  TypeOK'
  <2>1. node' \in [Processes -> Node] /\ Putting(p) \in Contents
    BY <1>5, ReturnedType DEF Replace, Nodes
  <2>2. file' \in [Contents -> {"absent", "part", "cached", "whole", "damaged"}]
    <3>1. temp[p] = "whole"
      BY <1>5 DEF Replace, Renamed
    <3> QED
      BY <1>5, <2>1, <3>1 DEF Replace, TypeOK
  <2> QED
    BY <1>5, <2>1, <2>2 DEF Replace, TypeOK, Node, Goto
<1>6. ASSUME NEW p \in Processes, Commit(p)
      PROVE  TypeOK'
  <2>1. /\ node[p].name \in Names /\ node[p].made \in Seq(Contents)
        /\ thread[p] \in Session
    BY DEF TypeOK
  <2>2. node[p].made # <<>> /\ thread[p].active[node[p].name].version < MaxVersion
    BY <1>6 DEF Commit, Nodes, InPut
  <2>3. Extended(thread[p], node[p].name, node[p].made) \in Session
    BY <2>1, <2>2, ExtendedType
  <2>4. thread' \in [Processes -> Session]
    BY <1>6, <2>3 DEF Commit, TypeOK
  <2> QED
    BY <1>6, <2>4, NoNodeType, QuietType DEF Commit, TypeOK, Label, Node
<1>7. ASSUME NEW p \in Processes, Flush(p)
      PROVE  TypeOK'
  BY <1>7 DEF Flush, TypeOK
<1>8. ASSUME NEW p \in Processes, Abandon(p)
      PROVE  TypeOK'
  BY <1>8, NoNodeType, QuietType DEF Abandon, TypeOK, Label, Node
<1>9. ASSUME NEW c \in Contents, Damage(c)
      PROVE  TypeOK'
  BY <1>9 DEF Damage, TypeOK
<1>10. CASE PowerLoss
  <2>1. PICK gone \in SUBSET Contents :
    /\ file' = [c \in Contents |->
                  IF c \in gone THEN "absent"
                  ELSE IF file[c] = "cached" THEN "part" ELSE file[c]]
    /\ spoiled' = spoiled \cup {c \in gone : file[c] # "absent"}
    BY <1>10 DEF PowerLoss
  <2>2. file' \in [Contents -> {"absent", "part", "cached", "whole", "damaged"}]
    BY <2>1 DEF TypeOK
  <2>3. spoiled' \subseteq Contents
    BY <2>1 DEF TypeOK
  <2>4. /\ thread' = saved /\ temp' = [p \in Processes |-> "none"] /\ saved' = saved
        /\ pc' = [p \in Processes |-> "idle"] /\ node' = [p \in Processes |-> NoNode]
        /\ read' = [p \in Processes |-> NoContent]
    BY <1>10 DEF PowerLoss
  <2>5. node' \in [Processes -> Node]
    BY <2>4, NoNodeType
  <2> QED
    BY <2>2, <2>3, <2>4, <2>5 DEF TypeOK, Node
<1>11. CASE UNCHANGED vars
  BY <1>11 DEF vars, TypeOK
<1> QED
  BY <1>1, <1>2, <1>3, <1>4, <1>5, <1>6, <1>7, <1>8, <1>9, <1>10, <1>11 DEF Next
-----------------------------------------------------------------------------
(* What a step may do to sessions and files *)

\* A session stays, goes back to its durable state, becomes durable or is
\* committed to.
LEMMA SessionsStep ==
  ASSUME TypeOK, [Next]_vars, NEW p \in Processes
  PROVE  \/ saved'[p] = saved[p] /\ thread'[p] \in {thread[p], saved[p]}
         \/ saved'[p] = thread[p] /\ thread'[p] = thread[p]
         \/ saved'[p] = saved[p] /\ Commit(p)
<1> USE DEF sessions
<1>1. ASSUME NEW q \in Processes, Start(q) \/ Read(q) \/ Produce(q) \/ PutExisting(q)
                \/ MakeTemporary(q) \/ Write(q) \/ Sync(q) \/ Replace(q)
      PROVE  UNCHANGED <<thread, saved>>
  BY <1>1 DEF Start, Read, Produce, PutExisting, MakeTemporary, Write, Sync, Replace
<1>2. ASSUME NEW q \in Processes, Commit(q)
      PROVE  saved' = saved /\ (q = p \/ thread'[p] = thread[p])
  BY <1>2 DEF Commit, TypeOK
<1>3. ASSUME NEW q \in Processes, Flush(q)
      PROVE  thread' = thread /\ saved'[p] \in {saved[p], thread[p]}
  BY <1>3 DEF Flush, TypeOK
<1>4. ASSUME NEW q \in Processes, Abandon(q)
      PROVE  saved' = saved /\ thread'[p] \in {saved[p], thread[p]}
  BY <1>4 DEF Abandon, TypeOK
<1>5. ASSUME NEW c \in Contents, Damage(c)
      PROVE  UNCHANGED <<thread, saved>>
  BY <1>5 DEF Damage
<1>6. CASE PowerLoss
  BY <1>6 DEF PowerLoss
<1>7. CASE UNCHANGED vars
  BY <1>7 DEF vars
<1> QED
  BY <1>1, <1>2, <1>3, <1>4, <1>5, <1>6, <1>7 DEF Next

\* Only a rename, damage and a power loss change what can be read.
LEMMA FilesStep ==
  ASSUME [Next]_vars
  PROVE  \/ UNCHANGED <<file, spoiled>>
         \/ \E p \in Processes : Replace(p)
         \/ \E c \in Contents : Damage(c)
         \/ PowerLoss
<1>1. ASSUME NEW p \in Processes, Start(p) \/ Read(p) \/ Produce(p) \/ PutExisting(p)
                \/ MakeTemporary(p) \/ Write(p) \/ Sync(p) \/ Commit(p) \/ Flush(p) \/ Abandon(p)
      PROVE  UNCHANGED <<file, spoiled>>
  BY <1>1 DEF Start, Read, Produce, PutExisting, MakeTemporary, Write, Sync, Commit, Flush,
              Abandon
<1> QED
  BY <1>1 DEF Next, vars

\* The artifact that a rename puts in its place.
LEMMA Renaming ==
  ASSUME TypeOK, Renamed, Nodes, NEW p \in Processes, Replace(p)
  PROVE  /\ Putting(p) \in Contents
         /\ file' = [file EXCEPT ![Putting(p)] = "whole"]
         /\ Readable' = Readable \cup {Putting(p)}
         /\ spoiled' = spoiled \ {Putting(p)}
<1>1. Putting(p) \in Contents
  BY ReturnedType DEF Replace, Nodes
<1>2. file' = [file EXCEPT ![Putting(p)] = "whole"]
  BY DEF Replace, Renamed
<1> QED
  BY <1>1, <1>2 DEF Replace, Readable, Complete, TypeOK

\* What a power loss leaves.
LEMMA Losing ==
  ASSUME TypeOK, Renamed, PowerLoss
  PROVE  \E gone \in SUBSET Contents :
           /\ \A c \in Contents : file'[c] = IF c \in gone THEN "absent" ELSE file[c]
           /\ Readable' = Readable \ gone
           /\ spoiled' = spoiled \cup {c \in gone : file[c] # "absent"}
<1>1. PICK gone \in SUBSET Contents :
        /\ file' = [c \in Contents |->
                      IF c \in gone THEN "absent"
                      ELSE IF file[c] = "cached" THEN "part" ELSE file[c]]
        /\ spoiled' = spoiled \cup {c \in gone : file[c] # "absent"}
  BY DEF PowerLoss
<1>2. \A c \in Contents : file'[c] = IF c \in gone THEN "absent" ELSE file[c]
  BY <1>1 DEF Renamed
<1>3. Readable' = Readable \ gone
  BY <1>2 DEF Readable, Complete
<1> QED
  BY <1>1, <1>2, <1>3

\* What can be read, or was taken away, stays so.
LEMMA Accounted ==
  ASSUME TypeOK, Renamed, Nodes, [Next]_vars
  PROVE  Readable \cup spoiled \subseteq Readable' \cup spoiled'
<1>1. CASE UNCHANGED <<file, spoiled>>
  BY <1>1 DEF Readable
<1>2. ASSUME NEW p \in Processes, Replace(p)
      PROVE  Readable \cup spoiled \subseteq Readable' \cup spoiled'
  BY <1>2, Renaming
<1>3. ASSUME NEW c \in Contents, Damage(c)
      PROVE  Readable \cup spoiled \subseteq Readable' \cup spoiled'
  BY <1>3 DEF Damage, Readable, TypeOK
<1>4. CASE PowerLoss
  BY <1>4, Losing DEF Readable, Complete
<1> QED
  BY <1>1, <1>2, <1>3, <1>4, FilesStep
-----------------------------------------------------------------------------
(* The invariant *)

LEMMA ReferencesStep ==
  ASSUME IInv, [Next]_vars
  PROVE  ReferencesResolve'
<1> USE DEF IInv
<1>1. ASSUME NEW p \in Processes
      PROVE  thread'[p].refs \cup saved'[p].refs \subseteq Readable' \cup spoiled'
  <2>1. thread[p].refs \cup saved[p].refs \subseteq Readable \cup spoiled
    BY DEF ReferencesResolve
  <2>2. CASE Commit(p) /\ saved'[p] = saved[p]
    <3>1. /\ node[p].name \in Names /\ node[p].made \in Seq(Contents)
          /\ thread[p] \in Session
      BY DEF TypeOK
    <3>2. node[p].made # <<>> /\ thread[p].active[node[p].name].version < MaxVersion
      BY <2>2 DEF Commit, Nodes, InPut
    <3>3. thread'[p] = Extended(thread[p], node[p].name, node[p].made)
      BY <2>2 DEF Commit, TypeOK
    <3>4. thread'[p].refs = thread[p].refs \cup ToSet(node[p].made)
      BY <3>1, <3>2, <3>3, ExtendedType
    <3> QED
      BY <2>1, <2>2, <3>4, Accounted DEF Nodes
  <2> QED
    BY <2>1, <2>2, SessionsStep, Accounted
<1>2. ASSUME NEW c \in Contents \ spoiled'
      PROVE  file'[c] \in {"absent", "whole"}
  <2>1. CASE UNCHANGED <<file, spoiled>>
    BY <2>1 DEF ReferencesResolve
  <2>2. ASSUME NEW p \in Processes, Replace(p)
        PROVE  file'[c] \in {"absent", "whole"}
    BY <2>2, Renaming DEF ReferencesResolve, TypeOK
  <2>3. ASSUME NEW d \in Contents, Damage(d)
        PROVE  file'[c] \in {"absent", "whole"}
    BY <2>3 DEF Damage, ReferencesResolve, TypeOK
  <2>4. CASE PowerLoss
    BY <2>4, Losing DEF ReferencesResolve
  <2> QED
    BY <2>1, <2>2, <2>3, <2>4, FilesStep
<1> QED
  BY <1>1, <1>2 DEF ReferencesResolve

LEMMA RenamedStep ==
  ASSUME IInv, [Next]_vars
  PROVE  Renamed'
<1> USE DEF IInv
<1>1. \A c \in Contents : file'[c] # "cached"
  <2>1. CASE UNCHANGED <<file, spoiled>>
    BY <2>1 DEF Renamed
  <2>2. ASSUME NEW p \in Processes, Replace(p)
        PROVE  \A c \in Contents : file'[c] # "cached"
    BY <2>2, Renaming DEF Renamed, TypeOK
  <2>3. ASSUME NEW d \in Contents, Damage(d)
        PROVE  \A c \in Contents : file'[c] # "cached"
    BY <2>3 DEF Damage, Renamed, TypeOK
  <2>4. CASE PowerLoss
    BY <2>4, Losing DEF Renamed
  <2> QED
    BY <2>1, <2>2, <2>3, <2>4, FilesStep
<1>2. ASSUME NEW p \in Processes
      PROVE  pc'[p] = "replace" => temp'[p] = "whole"
  <2> USE DEF sessions
  <2>1. ASSUME NEW q \in Processes, Start(q) \/ Read(q) \/ Produce(q) \/ MakeTemporary(q)
                  \/ Write(q) \/ Replace(q) \/ Commit(q) \/ Abandon(q)
        PROVE  /\ q = p => pc'[p] # "replace"
               /\ q # p => pc'[p] = pc[p] /\ temp'[p] = temp[p]
    BY <2>1 DEF Start, Read, Produce, MakeTemporary, Write, Replace, Commit, Abandon, Goto, TypeOK
  <2>2. ASSUME NEW q \in Processes, Sync(q)
        PROVE  /\ q = p => temp'[p] = "whole"
               /\ q # p => pc'[p] = pc[p] /\ temp'[p] = temp[p]
    BY <2>2 DEF Sync, Goto, TypeOK
  <2>3. ASSUME NEW q \in Processes, PutExisting(q) \/ Flush(q)
        PROVE  UNCHANGED <<pc, temp>>
    BY <2>3 DEF PutExisting, Flush
  <2>4. ASSUME NEW c \in Contents, Damage(c)
        PROVE  UNCHANGED <<pc, temp>>
    BY <2>4 DEF Damage
  <2>5. CASE PowerLoss
    BY <2>5 DEF PowerLoss
  <2>6. CASE UNCHANGED vars
    BY <2>6 DEF vars, Renamed
  <2> QED
    BY <2>1, <2>2, <2>3, <2>4, <2>5, <2>6 DEF Next, Renamed
<1> QED
  BY <1>1, <1>2 DEF Renamed

LEMMA NodesStep ==
  ASSUME IInv, [Next]_vars
  PROVE  Nodes'
<1> USE DEF IInv
<1> SUFFICES ASSUME NEW p \in Processes
             PROVE  /\ ToSet(node'[p].made) \subseteq Readable' \cup spoiled'
                    /\ InPut(p)' =>
                         /\ node'[p].todo # <<>> \/ node'[p].made # <<>>
                         /\ thread'[p].active[node'[p].name].version < MaxVersion
                    /\ pc'[p] \in {"write", "sync", "replace"} => node'[p].todo # <<>>
  BY DEF Nodes
<1>1. CASE UNCHANGED <<node[p], pc[p], thread[p]>>
  BY <1>1, Accounted DEF Nodes, InPut
<1>2. ASSUME NEW q \in Processes \ {p}, \/ Start(q) \/ Read(q) \/ Produce(q) \/ PutExisting(q)
                \/ MakeTemporary(q) \/ Write(q) \/ Sync(q) \/ Replace(q)
                \/ Commit(q) \/ Flush(q) \/ Abandon(q)
      PROVE  UNCHANGED <<node[p], pc[p], thread[p]>>
  BY <1>2 DEF Start, Read, Produce, PutExisting, MakeTemporary, Write, Sync, Replace, Commit,
              Flush, Abandon, Returned, Goto, TypeOK, sessions
<1>3. CASE Start(p) \/ Read(p)
  <2>1. UNCHANGED <<node, thread, spoiled, file>> /\ ~InPut(p)'
    BY <1>3 DEF Start, Read, Goto, TypeOK, InPut, sessions
  <2> QED
    BY <2>1 DEF Nodes, InPut, Readable
<1>4. CASE Produce(p)
  <2>1. PICK name \in Names, todo \in SeqOf(Contents, MaxPuts) :
          /\ todo # <<>> /\ thread[p].active[name].version < MaxVersion
          /\ node' = [node EXCEPT ![p] = [name |-> name, todo |-> todo, made |-> <<>>]]
    BY <1>4 DEF Produce
  <2>2. /\ node'[p].name = name /\ node'[p].todo = todo /\ node'[p].made = <<>>
        /\ thread' = thread
    BY <1>4, <2>1 DEF Produce, TypeOK
  <2>3. ToSet(node'[p].made) = {}
    BY <2>2 DEF ToSet
  <2> QED
    BY <2>1, <2>2, <2>3
<1>5. CASE PutExisting(p)
  <2>1. /\ node[p].todo # <<>> /\ Returned(p) /\ pc[p] = "put" /\ pc' = pc
        /\ thread' = thread /\ file[Putting(p)] # "absent"
    BY <1>5 DEF PutExisting, AtPut, sessions
  <2>2. /\ Putting(p) \in Contents /\ node'[p].name = node[p].name /\ node'[p].made # <<>>
        /\ ToSet(node'[p].made) \subseteq ToSet(node[p].made) \cup {Putting(p)}
    BY <2>1, ReturnedType
  <2>3. Putting(p) \in Readable \cup spoiled
    BY <2>1, <2>2 DEF ReferencesResolve, Readable, Complete
  <2>4. ToSet(node[p].made) \subseteq Readable \cup spoiled
    BY DEF Nodes
  <2>5. InPut(p) /\ thread[p].active[node[p].name].version < MaxVersion
    BY <2>1 DEF Nodes, InPut
  <2> QED
    BY <2>1, <2>2, <2>3, <2>4, <2>5, Accounted
<1>6. CASE MakeTemporary(p) \/ Write(p) \/ Sync(p)
  <2>1. UNCHANGED <<node, thread>> /\ InPut(p) /\ node[p].todo # <<>>
    BY <1>6 DEF MakeTemporary, Write, Sync, sessions, InPut, AtPut, Nodes
  <2> QED
    BY <2>1, Accounted DEF Nodes
<1>7. CASE Replace(p)
  <2>1. node[p].todo # <<>> /\ Returned(p) /\ thread' = thread /\ pc'[p] = "put" /\ InPut(p)
    BY <1>7 DEF Replace, Nodes, Goto, TypeOK, sessions, InPut
  <2>2. /\ node'[p].name = node[p].name /\ node'[p].made # <<>>
        /\ ToSet(node'[p].made) \subseteq ToSet(node[p].made) \cup {Putting(p)}
    BY <2>1, ReturnedType
  <2>3. Putting(p) \in Readable'
    BY <1>7, Renaming
  <2>4. ToSet(node[p].made) \subseteq Readable \cup spoiled
    BY DEF Nodes
  <2>5. thread[p].active[node[p].name].version < MaxVersion
    BY <2>1 DEF Nodes
  <2> QED
    BY <2>1, <2>2, <2>3, <2>4, <2>5, Accounted
<1>8. CASE Commit(p) \/ Abandon(p)
  <2>1. node'[p] = NoNode /\ pc'[p] = "idle"
    BY <1>8 DEF Commit, Abandon, Goto, TypeOK
  <2> QED
    BY <2>1, NoNodeType DEF InPut
<1>9. CASE Flush(p)
  BY <1>9, <1>1 DEF Flush
<1>10. ASSUME NEW c \in Contents, Damage(c)
       PROVE  UNCHANGED <<node[p], pc[p], thread[p]>>
  BY <1>10 DEF Damage, sessions
<1>11. CASE PowerLoss
  <2>1. node'[p] = NoNode /\ pc'[p] = "idle"
    BY <1>11 DEF PowerLoss
  <2> QED
    BY <2>1, NoNodeType DEF InPut
<1>12. CASE UNCHANGED vars
  BY <1>1, <1>12 DEF vars
<1> QED
  BY <1>1, <1>2, <1>3, <1>4, <1>5, <1>6, <1>7, <1>8, <1>9, <1>10, <1>11, <1>12 DEF Next

LEMMA BehindStep ==
  ASSUME IInv, [Next]_vars
  PROVE  Behind'
<1> USE DEF IInv
<1> SUFFICES ASSUME NEW p \in Processes
             PROVE  /\ saved'[p].refs \subseteq thread'[p].refs
                    /\ \A n \in Names :
                         /\ saved'[p].active[n].version <= thread'[p].active[n].version
                         /\ saved'[p].active[n].version = thread'[p].active[n].version
                              => saved'[p].active[n].id = thread'[p].active[n].id
  BY DEF Behind
<1>1. \A n \in Names : /\ saved[p].active[n].version \in Nat
                       /\ thread[p].active[n].version \in Nat
  BY StoreAssumption DEF TypeOK, Session
<1>2. /\ saved[p].refs \subseteq thread[p].refs
      /\ \A n \in Names :
           /\ saved[p].active[n].version <= thread[p].active[n].version
           /\ saved[p].active[n].version = thread[p].active[n].version
                => saved[p].active[n].id = thread[p].active[n].id
  BY DEF Behind
<1>3. CASE saved'[p] = saved[p] /\ thread'[p] \in {thread[p], saved[p]}
  BY <1>1, <1>2, <1>3
<1>4. CASE saved'[p] = thread[p] /\ thread'[p] = thread[p]
  BY <1>1, <1>4
<1>5. CASE saved'[p] = saved[p] /\ Commit(p)
  <2>1. /\ node[p].name \in Names /\ node[p].made \in Seq(Contents)
        /\ thread[p] \in Session
    BY DEF TypeOK
  <2>2. node[p].made # <<>> /\ thread[p].active[node[p].name].version < MaxVersion
    BY <1>5 DEF Commit, Nodes, InPut
  <2>3. thread'[p] = Extended(thread[p], node[p].name, node[p].made)
    BY <1>5 DEF Commit, TypeOK
  <2>4. /\ thread[p].refs \subseteq thread'[p].refs
        /\ \A n \in Names :
             \/ thread'[p].active[n] = thread[p].active[n]
             \/ thread'[p].active[n].version = thread[p].active[n].version + 1
    BY <2>1, <2>2, <2>3, ExtendedType
  <2> QED
    BY <1>1, <1>2, <1>5, <2>4
<1> QED
  BY <1>3, <1>4, <1>5, SessionsStep

LEMMA IInvInit == Init => IInv
<1> SUFFICES ASSUME Init PROVE IInv
  OBVIOUS
<1>1. TypeOK
  BY TypeInit
<1>2. ReferencesResolve
  BY DEF Init, ReferencesResolve, NewSession
<1>3. Renamed
  BY DEF Init, Renamed
<1>4. Nodes
  BY NoNodeType DEF Init, Nodes, InPut
<1>5. Behind
  BY DEF Init, Behind, NewSession
<1> QED
  BY <1>1, <1>2, <1>3, <1>4, <1>5 DEF IInv

LEMMA IInvStep ==
  ASSUME IInv, [Next]_vars
  PROVE  IInv'
<1>1. TypeOK'
  BY TypeStep DEF IInv
<1> QED
  BY <1>1, ReferencesStep, RenamedStep, NodesStep, BehindStep DEF IInv

LEMMA Invariance == Spec => []IInv
BY IInvInit, IInvStep, PTL DEF Spec
-----------------------------------------------------------------------------
(* Theorems *)

\* The type of every variable, under every interleaving of processes, crashes
\* and power losses.
THEOREM TypeCorrect == Spec => []TypeOK
BY Invariance, PTL DEF IInv

\* FileArtifactStore: what a checkpoint refers to can be read, and what put
\* finds under the name of an artifact is that artifact, unless something else
\* than the program took it away.
THEOREM ReferencesKept == Spec => []ReferencesResolve
BY Invariance, PTL DEF IInv

\* docs/langgraph-ticket-graph.md: past versions are not deleted, and a durable
\* version never changes its content.
THEOREM PastVersionsStable == Spec => Ledger!VersionsStable
<1>1. ASSUME IInv, [Next]_vars, NEW p \in Processes
      PROVE  /\ saved[p].refs \subseteq saved'[p].refs
             /\ \A n \in Names :
                  saved'[p].active[n].version = saved[p].active[n].version
                    => saved'[p].active[n].id = saved[p].active[n].id
  BY <1>1, SessionsStep DEF IInv, Behind
<1>2. IInv /\ [Next]_vars =>
        [\A p \in Processes :
           /\ saved[p].refs \subseteq saved'[p].refs
           /\ \A n \in Names :
                saved'[p].active[n].version = saved[p].active[n].version
                  => saved'[p].active[n].id = saved[p].active[n].id]_(Ledger!vars)
  BY <1>1
<1> QED
  BY <1>2, Invariance, PTL DEF Spec, Ledger!VersionsStable
-----------------------------------------------------------------------------
(* The refinement *)

LEMMA RefinesInit == Init => Ledger!Init
BY DEF Init, Ledger!Init, NewSession, Ledger!NewSession, Readable, Complete

LEMMA RefinesCommit ==
  ASSUME IInv, NEW p \in Processes, Commit(p)
  PROVE  Ledger!Next
<1> DEFINE name == node[p].name
           made == node[p].made
<1>1. name \in Names /\ made \in Seq(Contents) /\ thread[p] \in Session
  BY DEF IInv, TypeOK
<1>2. made # <<>> /\ thread[p].active[name].version < MaxVersion
  BY DEF IInv, Commit, Nodes, InPut
<1>3. Last(made) \in ToSet(made) /\ ToSet(made) \subseteq Contents
  BY <1>1, <1>2, ExtendedType
<1>4. ToSet(made) \subseteq Readable \cup spoiled
  BY DEF IInv, Nodes
<1>5. thread' = [thread EXCEPT ![p] = Ledger!Extended(thread[p], name, ToSet(made), Last(made))]
  BY DEF Commit, Extended, Ledger!Extended
<1>6. UNCHANGED <<Readable, spoiled, saved, read>>
  BY DEF Commit, Readable
<1>7. Ledger!Commit(p, name, ToSet(made), Last(made))
  BY <1>3, <1>4, <1>5, <1>6 DEF Ledger!Commit, Ledger!Extended
<1> QED
  BY <1>1, <1>3, <1>7 DEF Ledger!Next

LEMMA RefinesFiles ==
  ASSUME IInv,
         \/ \E p \in Processes : Replace(p)
         \/ \E c \in Contents : Damage(c)
         \/ PowerLoss
  PROVE  Ledger!Next
<1> USE DEF IInv
<1>1. ASSUME NEW p \in Processes, Replace(p)
      PROVE  Ledger!Next
  <2>1. Putting(p) \in Contents /\ Ledger!Put(Putting(p))
    BY <1>1, Renaming DEF Replace, sessions, Ledger!Put
  <2> QED
    BY <2>1 DEF Ledger!Next
<1>2. ASSUME NEW c \in Contents, Damage(c)
      PROVE  Ledger!Next
  <2>1. Readable' = Readable \ {c} /\ spoiled' = spoiled \cup {c}
    BY <1>2 DEF Damage, Readable, Complete, TypeOK
  <2>2. Ledger!Lose({c})
    BY <1>2, <2>1 DEF Damage, sessions, Ledger!Lose
  <2> QED
    BY <2>2 DEF Ledger!Next
<1>3. CASE PowerLoss
  <2>1. PICK gone \in SUBSET Contents :
           /\ Readable' = Readable \ gone
           /\ spoiled' = spoiled \cup {c \in gone : file[c] # "absent"}
    BY <1>3, Losing
  <2> DEFINE taken == {c \in gone : file[c] # "absent"}
  <2>2. Readable' = Readable \ taken
    BY <2>1 DEF Readable, Complete
  <2>3. thread' = saved /\ saved' = saved /\ read' = [p \in Processes |-> NoContent]
    BY <1>3 DEF PowerLoss
  <2>4. Ledger!Lose(taken)
    BY <2>1, <2>2, <2>3 DEF Ledger!Lose
  <2> QED
    BY <2>4 DEF Ledger!Next
<1> QED
  BY <1>1, <1>2, <1>3

LEMMA RefinesSession ==
  ASSUME IInv, NEW p \in Processes, Read(p) \/ Produce(p) \/ Flush(p) \/ Abandon(p)
  PROVE  Ledger!Next
<1> USE DEF IInv
<1>1. CASE Read(p)
  <2>1. PICK c \in thread[p].refs : \E answer \in Answer(c) : read' = [read EXCEPT ![p] = answer]
    BY <1>1 DEF Read
  <2>2. c \in Contents
    BY DEF TypeOK, Session
  <2>3. read' = [read EXCEPT ![p] = IF c \in Readable THEN c ELSE NoContent]
    BY <2>1, <2>2 DEF Answer, Readable
  <2>4. UNCHANGED <<Readable, spoiled, thread, saved>>
    BY <1>1 DEF Read, Readable
  <2>5. Ledger!Get(p, c)
    BY <2>1, <2>3, <2>4 DEF Ledger!Get
  <2> QED
    BY <2>2, <2>5 DEF Ledger!Next
<1>2. CASE Produce(p)
  <2>1. Ledger!Drop(p)
    BY <1>2 DEF Produce, Readable, Ledger!Drop
  <2> QED
    BY <2>1 DEF Ledger!Next
<1>3. CASE Flush(p)
  <2>1. Ledger!Save(p)
    BY <1>3 DEF Flush, Readable, Ledger!Save
  <2> QED
    BY <2>1 DEF Ledger!Next
<1>4. CASE Abandon(p)
  <2>1. Ledger!Forget(p)
    BY <1>4 DEF Abandon, Readable, Ledger!Forget
  <2> QED
    BY <2>1 DEF Ledger!Next
<1> QED
  BY <1>1, <1>2, <1>3, <1>4

LEMMA RefinesStep ==
  ASSUME IInv, [Next]_vars
  PROVE  [Ledger!Next]_(Ledger!vars)
<1>1. ASSUME NEW p \in Processes, \/ Start(p) \/ PutExisting(p) \/ MakeTemporary(p)
                \/ Write(p) \/ Sync(p)
      PROVE  UNCHANGED Ledger!vars
  BY <1>1 DEF Start, PutExisting, MakeTemporary, Write, Sync, sessions, Readable, Ledger!vars
<1>2. CASE UNCHANGED vars
  BY <1>2 DEF vars, Readable, Ledger!vars
<1> QED
  BY <1>1, <1>2, RefinesCommit, RefinesFiles, RefinesSession DEF Next

\* ADR-0008: files, temporary files and renames implement a store that is
\* written in single steps and answers with what was put or not at all.
THEOREM Implements == Spec => RefinesLedger
<1>1. IInv /\ [Next]_vars => [Ledger!Next]_(Ledger!vars)
  BY RefinesStep
<1> QED
  BY <1>1, RefinesInit, Invariance, PTL DEF Spec, RefinesLedger, Ledger!Spec
=============================================================================
