----------------------------- MODULE IntakeProofs -----------------------------
(***************************************************************************)
(* For any number of daemons, clients and connections, restarts and lost   *)
(* answers: what a client is told of its submission is true, and the owner *)
(* decides on the content that was shown.                                  *)
(*                                                                         *)
(* Both follow from one fact: the content stored under an id never         *)
(* changes.  IntakeInv adds where copies of it are on their way to a       *)
(* client or to the owner.                                                 *)
(***************************************************************************)
EXTENDS Intake, TLAPS

Holds(i, f) == i \in Ids /\ rows[i] # NoRow /\ rows[i].file = f

IntakeInv ==
    /\ TypeOK
    /\ \A h \in Handlers :
          /\ handler[h].at = "notifying" => handler[h].answer = "ok"
          /\ handler[h].at # "free" =>
                handler[h].file \in Files /\ handler[h].daemon \in Daemons
          /\ handler[h].answer = "ok" => Holds(handler[h].id, handler[h].file)
          /\ handler[h].client # NoClient =>
                /\ handler[h].at # "free"
                /\ client[handler[h].client].file = handler[h].file
    /\ \A c \in Clients :
          client[c].answer = "ok" => Holds(client[c].id, client[c].file)
    /\ \A i \in Ids, f \in Files : <<i, f>> \in seen => Holds(i, f)
    /\ DecidedAsSeen

USE FilesAssumption, SentinelAssumption DEF Idle, Free, Up

LEMMA InitInv == Init => IntakeInv
  BY DEF Init, IntakeInv, TypeOK, DecidedAsSeen, Has, Answers

(* Daemons and signals.                                                    *)
LEMMA DaemonSteps ==
    ASSUME IntakeInv, NEW d \in Daemons,
           \/ Start(d) \/ Listen(d) \/ Open(d) \/ CannotOpen(d)
           \/ Close(d) \/ Exit(d) \/ Crash(d)
    PROVE  IntakeInv'
<1>1. CASE Start(d)
  BY <1>1 DEF Start, IntakeInv, TypeOK, DecidedAsSeen, Has, Holds
<1>2. CASE Listen(d) \/ Open(d) \/ CannotOpen(d)
  <2>1. PICK step \in {"listening", "serving", "failed"} :
          daemon' = [daemon EXCEPT ![d] = step]
    BY <1>2 DEF Listen, Open, CannotOpen
  <2>2. /\ daemon[d] \in {"starting", "listening"} /\ path' \in Daemons \cup {NoDaemon}
        /\ UNCHANGED <<client, handler, rows, seen>>
    BY <1>2 DEF Listen, Open, CannotOpen, IntakeInv, TypeOK
  <2>3. \A h \in Handlers : handler[h] # Free =>
          daemon'[handler[h].daemon] = daemon[handler[h].daemon]
    BY <2>1, <2>2 DEF IntakeInv, TypeOK
  <2>4. TypeOK'
    BY <2>1, <2>2, <2>3 DEF IntakeInv, TypeOK
  <2>. QED BY <2>2, <2>4 DEF IntakeInv, DecidedAsSeen, Has, Holds
<1>3. CASE Close(d)
  BY <1>3 DEF Close, IntakeInv, TypeOK, DecidedAsSeen, Has, Holds
<1>4. ASSUME Die(d), path' \in Daemons \cup {NoDaemon} PROVE IntakeInv'
  <2>1. \A h \in Handlers : handler'[h] = handler[h] \/ handler'[h] = Free
    BY <1>4 DEF Die
  <2>2. TypeOK'
    <3>1. handler' \in [Handlers ->
            [at : {"free", "dispatching", "notifying", "answering"},
             daemon : Daemons \cup {NoDaemon}, client : Clients \cup {NoClient},
             file : Files \cup {NoFile}, answer : Answers,
             id : Ids \cup {NoId}]]
      BY <1>4 DEF Die, IntakeInv, TypeOK, Answers
    <3>2. \A h \in Handlers :
            handler'[h] # Free =>
              daemon'[handler'[h].daemon] \in {"serving", "closing"}
      BY <1>4 DEF Die, IntakeInv, TypeOK
    <3>3. \A g, h \in Handlers :
            handler'[g].client = handler'[h].client =>
              g = h \/ handler'[g].client = NoClient
      BY <2>1 DEF IntakeInv, TypeOK
    <3>. QED BY <1>4, <3>1, <3>2, <3>3 DEF Die, IntakeInv, TypeOK
  <2>. QED BY <1>4, <2>1, <2>2 DEF Die, IntakeInv, DecidedAsSeen, Has, Holds
<1>5. CASE Exit(d)
  BY <1>5, <1>4 DEF Exit
<1>6. CASE Crash(d)
  BY <1>6, <1>4 DEF Crash, IntakeInv, TypeOK
<1>. QED BY <1>1, <1>2, <1>3, <1>5, <1>6

(* Clients: a connected client keeps to its file.                          *)
LEMMA ClientSteps ==
    ASSUME IntakeInv, NEW c \in Clients,
           \/ \E f \in Files : Begin(c, f)
           \/ \E h \in Handlers : Connect(c, h)
           \/ Leave(c)
    PROVE  IntakeInv'
<1>1. ASSUME NEW f \in Files, Begin(c, f) PROVE IntakeInv'
  <2>1. ~Connected(c)
    BY <1>1 DEF Begin, Connected, IntakeInv
  <2>. QED BY <1>1, <2>1 DEF Begin, Connected, IntakeInv, TypeOK,
              DecidedAsSeen, Has, Holds, Answers
<1>2. ASSUME NEW h \in Handlers, Connect(c, h) PROVE IntakeInv'
  <2>1. client[c].file \in Files /\ path \in Daemons
    BY <1>2 DEF Connect, IntakeInv, TypeOK
  <2>2. TypeOK'
    BY <1>2, <2>1 DEF Connect, Connected, IntakeInv, TypeOK, Answers
  <2>. QED BY <1>2, <2>1, <2>2 DEF Connect, IntakeInv, TypeOK,
              DecidedAsSeen, Has, Holds
<1>3. CASE Leave(c)
  BY <1>3 DEF Leave, Connected, IntakeInv, TypeOK, DecidedAsSeen, Has,
     Holds, Answers
<1>. QED BY <1>1, <1>2, <1>3

(* A handler that goes on keeps its daemon and its connection.             *)
LEMMA FinishTypes ==
    ASSUME IntakeInv, NEW h \in Handlers, handler[h].at = "dispatching",
           NEW step \in {"answering", "notifying"}, NEW answer \in Answers,
           NEW i \in Ids \cup {NoId}, Finish(h, step, answer, i),
           rows' \in [Ids -> Rows \cup {NoRow}],
           UNCHANGED <<daemon, path, client, seen>>
    PROVE  TypeOK'
<1>. DEFINE r == [handler[h] EXCEPT !.at = step, !.answer = answer, !.id = i]
<1>1. handler' = [handler EXCEPT ![h] = r]
  BY DEF Finish, IntakeInv, TypeOK
<1>2. r \in [at : {"free", "dispatching", "notifying", "answering"},
             daemon : Daemons \cup {NoDaemon}, client : Clients \cup {NoClient},
             file : Files \cup {NoFile}, answer : Answers,
             id : Ids \cup {NoId}]
  <2>0. handler[h] \in
          [at : {"free", "dispatching", "notifying", "answering"},
           daemon : Daemons \cup {NoDaemon}, client : Clients \cup {NoClient},
           file : Files \cup {NoFile}, answer : Answers,
           id : Ids \cup {NoId}]
    BY DEF IntakeInv, TypeOK
  <2>1. step \in {"free", "dispatching", "notifying", "answering"}
    OBVIOUS
  <2>. QED BY <2>0, <2>1, Zenon
<1>3. handler[h] # Free /\ r.daemon = handler[h].daemon /\ r.client = handler[h].client
  BY DEF IntakeInv, TypeOK
<1>. HIDE DEF r
<1>4. \A g \in Handlers : g # h => handler'[g] = handler[g]
  BY <1>1 DEF IntakeInv, TypeOK
<1>5. handler'[h] = r
  BY <1>1 DEF IntakeInv, TypeOK
<1>6. \A g \in Handlers :
        handler'[g] # Free => daemon'[handler'[g].daemon] \in {"serving", "closing"}
  BY <1>3, <1>4, <1>5 DEF IntakeInv, TypeOK
<1>7. \A f, g \in Handlers :
        handler'[f].client = handler'[g].client =>
            f = g \/ handler'[f].client = NoClient
  BY <1>3, <1>4, <1>5 DEF IntakeInv, TypeOK
<1>. QED BY <1>1, <1>2, <1>6, <1>7 DEF IntakeInv, TypeOK

(* Handlers.                                                               *)
LEMMA HandlerSteps ==
    ASSUME IntakeInv, NEW h \in Handlers,
           \/ GiveUp(h) \/ Refuse(h) \/ StoreTwice(h) \/ StoreFails(h)
           \/ Notify(h) \/ Answer(h)
    PROVE  IntakeInv'
<1>1. CASE GiveUp(h)
  BY <1>1 DEF GiveUp, IntakeInv, TypeOK, DecidedAsSeen, Has, Holds
<1>2. ASSUME NEW answer \in {"refused", "failed"},
             handler[h].at = "dispatching",
             Finish(h, "answering", answer, NoId),
             UNCHANGED <<daemon, path, client, rows, seen>>
      PROVE  IntakeInv'
  <2>1. handler' = [handler EXCEPT ![h] =
            [handler[h] EXCEPT !.at = "answering", !.answer = answer,
                               !.id = NoId]]
    BY <1>2 DEF Finish, IntakeInv, TypeOK
  <2>2. TypeOK'
    BY <1>2, FinishTypes DEF IntakeInv, TypeOK, Answers
  <2>. QED BY <1>2, <2>1, <2>2 DEF IntakeInv, TypeOK, DecidedAsSeen, Has,
              Holds
<1>3. CASE Refuse(h) \/ StoreTwice(h) \/ StoreFails(h)
  BY <1>2, <1>3 DEF Refuse, StoreTwice, StoreFails
<1>4. CASE Notify(h)
  <2>1. Holds(handler[h].id, handler[h].file) /\ handler[h].file \in Files
    BY <1>4 DEF Notify, IntakeInv
  <2>2. TypeOK'
    BY <1>4, <2>1 DEF Notify, IntakeInv, TypeOK, Holds
  <2>. QED BY <1>4, <2>1, <2>2 DEF Notify, IntakeInv, TypeOK, DecidedAsSeen,
              Has, Holds
<1>5. CASE Answer(h)
  <2>1. TypeOK'
    BY <1>5 DEF Answer, IntakeInv, TypeOK, Answers
  <2>. QED BY <1>5, <2>1 DEF Answer, IntakeInv, TypeOK, DecidedAsSeen, Has,
              Holds
<1>. QED BY <1>1, <1>3, <1>4, <1>5

(* A new row gets an id that no answer and no notice has named yet.        *)
LEMMA StoreStep ==
    ASSUME IntakeInv, NEW h \in Handlers, Store(h) PROVE IntakeInv'
<1>1. PICK i \in Ids :
        /\ rows[i] = NoRow
        /\ rows' = [rows EXCEPT ![i] = Row(handler[h].file)]
        /\ \/ Finish(h, "answering", "ok", i)
           \/ Finish(h, "notifying", "ok", i)
  BY DEF Store, UsableId
<1>2. /\ handler[h].file \in Files /\ handler[h].at = "dispatching"
      /\ UNCHANGED <<daemon, path, client, seen>>
  BY DEF Store, IntakeInv
<1>3. Row(handler[h].file) \in Rows
  BY <1>2 DEF Row, Rows
<1>4. rows' \in [Ids -> Rows \cup {NoRow}]
  BY <1>1, <1>3 DEF IntakeInv, TypeOK
<1>5. /\ \A j \in Ids : rows[j] # NoRow => rows'[j] = rows[j]
      /\ rows'[i] = Row(handler[h].file) /\ rows'[i] # NoRow
  BY <1>1, <1>3 DEF IntakeInv, TypeOK
<1>6. \A j \in Ids : Has(j, "decided")' =>
        Has(j, "decided") /\ rows'[j] = rows[j]
  BY <1>1, <1>5 DEF Has, Row, IntakeInv, TypeOK
<1>7. PICK step \in {"answering", "notifying"} :
        handler' = [handler EXCEPT ![h] =
            [handler[h] EXCEPT !.at = step, !.answer = "ok", !.id = i]]
  BY <1>1 DEF Finish, IntakeInv, TypeOK
<1>8. TypeOK'
  BY <1>1, <1>2, <1>4, FinishTypes DEF Answers
<1>9. \A g \in Handlers : handler'[g].answer = "ok" =>
        Holds(handler[g].id, handler[g].file)'
  <2>1. ASSUME NEW g \in Handlers, g # h, handler'[g].answer = "ok"
        PROVE  Holds(handler[g].id, handler[g].file)'
    BY <1>5, <1>7, <2>1 DEF IntakeInv, TypeOK, Holds
  <2>2. Holds(handler[h].id, handler[h].file)'
    BY <1>2, <1>5, <1>7 DEF Row, Holds, IntakeInv, TypeOK
  <2>. QED BY <2>1, <2>2
<1>10. DecidedAsSeen'
  BY <1>2, <1>6 DEF IntakeInv, DecidedAsSeen
<1>. QED BY <1>2, <1>5, <1>7, <1>8, <1>9, <1>10 DEF IntakeInv, TypeOK,
            Holds

(* The owner's commands.                                                   *)
LEMMA OwnerSteps ==
    ASSUME IntakeInv, ListPending \/ BotPending \/ \E i \in Ids : Decide(i) PROVE IntakeInv'
<1>0. BotPending => ListPending
  BY DEF BotPending
<1>1. CASE ListPending
  <2>1. \A i \in Ids : Listed(i) => rows[i] # NoRow /\ rows[i].file \in Files
    BY DEF Listed, Has, IntakeInv, TypeOK, Rows
  <2>2. TypeOK'
    BY <1>1, <2>1 DEF ListPending, IntakeInv, TypeOK
  <2>3. \A i \in Ids, f \in Files : <<i, f>> \in seen' => Holds(i, f)
    BY <1>1, <2>1 DEF ListPending, IntakeInv, Holds
  <2>4. DecidedAsSeen'
    BY <1>1 DEF ListPending, IntakeInv, DecidedAsSeen, Has
  <2>. QED BY <1>1, <2>2, <2>3, <2>4 DEF ListPending, IntakeInv, Holds
<1>2. ASSUME NEW i \in Ids, Decide(i) PROVE IntakeInv'
  <2>1. PICK f \in Files : <<i, f>> \in seen /\ Holds(i, f)
    BY <1>2 DEF Decide, IntakeInv
  <2>2. rows[i] \in Rows
    BY <2>1 DEF Holds, IntakeInv, TypeOK
  <2>3. /\ rows' \in [Ids -> Rows \cup {NoRow}]
        /\ \A j \in Ids : rows[j] # NoRow =>
              rows'[j] # NoRow /\ rows'[j].file = rows[j].file
        /\ \A j \in Ids : j # i => rows'[j] = rows[j]
    BY <1>2, <2>2 DEF Decide, Rows, IntakeInv, TypeOK
  <2>4. TypeOK'
    BY <1>2, <2>3 DEF Decide, IntakeInv, TypeOK
  <2>5. DecidedAsSeen'
    BY <1>2, <2>1, <2>3 DEF Decide, IntakeInv, DecidedAsSeen, Has, Holds
  <2>. QED BY <1>2, <2>3, <2>4, <2>5 DEF Decide, IntakeInv, Holds
<1>. QED BY <1>0, <1>1, <1>2

LEMMA NextInv == IntakeInv /\ [Next]_vars => IntakeInv'
<1>. SUFFICES ASSUME IntakeInv, [Next]_vars PROVE IntakeInv'
  OBVIOUS
<1>1. CASE UNCHANGED vars
  BY <1>1 DEF vars, IntakeInv, TypeOK, DecidedAsSeen, Has, Holds
<1>2. CASE Trouble
  BY <1>2, DaemonSteps, HandlerSteps DEF Trouble
<1>3. ASSUME NEW h \in Handlers, Serve(h) PROVE IntakeInv'
  BY <1>3, HandlerSteps, StoreStep DEF Serve
<1>. QED BY <1>1, <1>2, <1>3, DaemonSteps, ClientSteps, HandlerSteps,
            OwnerSteps DEF Next

LEMMA Invariance == Spec => []IntakeInv
  BY InitInv, NextInv, PTL DEF Spec

(* For any number of daemons, clients and connections every variable keeps *)
(* to its type and no client waits on two connections.                     *)
THEOREM IntakeTypeCorrect == Spec => []TypeOK
<1>1. IntakeInv => TypeOK
  BY DEF IntakeInv
<1>. QED BY <1>1, Invariance, PTL

(* A client that was told ok has its file stored under the id it was told. *)
THEOREM ToldTheTruth == Spec => []AnswersAreTrue
<1>1. IntakeInv => AnswersAreTrue
  BY DEF IntakeInv, AnswersAreTrue, Holds
<1>. QED BY <1>1, Invariance, PTL

(* No decision is ever taken on a content the owner was not shown.         *)
THEOREM DecisionsAreInformed == Spec => []DecidedAsSeen
<1>1. IntakeInv => DecidedAsSeen
  BY DEF IntakeInv
<1>. QED BY <1>1, Invariance, PTL
==============================================================================
