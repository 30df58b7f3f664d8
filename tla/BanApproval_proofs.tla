------------------------ MODULE BanApproval_proofs ------------------------
(***************************************************************************)
(* Proofs about BanApproval: its type invariant, its safety properties and *)
(* its step properties hold, and it implements GovernedBan, for every set  *)
(* of users, targets, requests and handlers and for every bound on         *)
(* failures, crashes and edits.                                            *)
(***************************************************************************)
EXTENDS BanApproval, TLAPS

\* What every step leaves of a submitted request and of the facts recorded about it.
Keeps(r) ==
    /\ request[r].state # "absent" =>
          /\ request'[r].state # "absent"
          /\ request'[r].target = request[r].target
          /\ request'[r].requester = request[r].requester
          /\ request'[r].ttl = request[r].ttl
    /\ request[r].approver # NoUser => request'[r].approver # NoUser
Evolves ==
    /\ \A r \in ReqIds : Keeps(r)
    /\ \A r \in ReqIds : request[r].state # "absent" => entitled[r] \subseteq entitled'[r]
    /\ audit \subseteq audit'
    /\ faults' = 0 => faults = 0
    /\ faults' = 0 /\ edits' = 0 => edits = 0 /\ protected' = protected

-----------------------------------------------------------------------------
\* Fewer protected entries veto fewer targets.
LEMMA SafeWeaken ==
    ASSUME NEW t, NEW entries, AssertSafe(t, entries)
    PROVE  AssertSafe(t, {})
  BY DEF AssertSafe

\* An audited approval of a submitted request stays audited.
LEMMA AuditedStays ==
    ASSUME Evolves, NEW r \in ReqIds, request[r].state # "absent", Audited(r)
    PROVE  Audited(r)'
  BY DEF Evolves, Keeps, Audited

\* A target found safe stays safe in the sense of SafeTarget: an edit or a failure
\* after the check reduces the claim to the built-in entries.
LEMMA SafeStays ==
    ASSUME Evolves, NEW r \in ReqIds, request[r].state # "absent", SafeTarget(r)
    PROVE  SafeTarget(r)'
<1>1. request'[r].target = request[r].target
  BY DEF Evolves, Keeps
<1>2. CASE faults' = 0 /\ edits' = 0
  BY <1>1, <1>2 DEF Evolves, SafeTarget, AssertSafe
<1>3. CASE ~(faults' = 0 /\ edits' = 0)
  BY <1>1, <1>3, SafeWeaken DEF SafeTarget, AssertSafe
<1>4. QED
  BY <1>2, <1>3

\* A handler keeps what it has established while others take steps.
LEMMA OtherJobs ==
    ASSUME TypeOK, Evolves, NEW h \in Handlers, JobOK(h), job'[h] = job[h]
    PROVE  JobOK(h)'
<1> DEFINE r == job[h].req
<1>1. CASE job[h].pc \in {"idle", "ttl", "insert"}
  BY <1>1 DEF JobOK, TypeOK
<1>2. CASE job[h].pc \in {"mail", "activate"}
  BY <1>2 DEF JobOK, Evolves, Keeps
<1>3. CASE job[h].pc \in {"audit", "guard", "block", "lookup", "dispatch",
                          "ladderRead", "ladderWrite"}
  <2>1. r \in ReqIds /\ Approved(r) /\ Approved(r)'
    BY <1>3 DEF JobOK, Approved, Evolves, Keeps
  <2>2. job[h].pc \in {"guard", "lookup", "dispatch"} /\ faults' = 0 => Audited(r)'
    BY <2>1, AuditedStays DEF JobOK, Approved, Evolves
  <2>3. job[h].pc \in {"lookup", "dispatch"} => SafeTarget(r)'
    BY <2>1, SafeStays DEF JobOK, Approved
  <2>4. job[h].pc = "audit" => request'[r].requester # job[h].user
    BY <2>1 DEF JobOK, Approved, Evolves, Keeps
  <2>5. QED
    BY <1>3, <2>1, <2>2, <2>3, <2>4 DEF JobOK, Earned
<1>4. QED
  BY <1>1, <1>2, <1>3 DEF TypeOK, Job, PCs

\* A dispatch keeps its justification.
LEMMA OldDispatches ==
    ASSUME Evolves, NEW d \in Dispatch, DispatchOK(d)
    PROVE  DispatchOK(d)'
<1>1. d.req \in ReqIds
  BY DEF Dispatch
<1>2. Approved(d.req) /\ Approved(d.req)'
  BY <1>1 DEF DispatchOK, Approved, Evolves, Keeps
<1>3. faults' = 0 => Audited(d.req)'
  BY <1>1, <1>2, AuditedStays DEF DispatchOK, Approved, Evolves
<1>4. SafeTarget(d.req)'
  BY <1>1, <1>2, SafeStays DEF DispatchOK, Approved
<1>5. QED
  BY <1>1, <1>2, <1>3, <1>4 DEF DispatchOK, Approved, Evolves, Keeps

\* A step of handler h keeps the invariant if it keeps the rows well-formed, and h
\* and the dispatch it may have inserted are in order afterwards.
LEMMA Compose ==
    ASSUME IInv, Evolves, TypeOK', RequestInv', EntitledInv', TokenInv', LadderInv',
           NEW h \in Handlers,
           \A g \in Handlers \ {h} : job'[g] = job[g],
           JobOK(h)',
           \A i \in DOMAIN dispatch' :
               \/ i \in DOMAIN dispatch /\ dispatch'[i] = dispatch[i]
               \/ DispatchOK(dispatch[i])'
    PROVE  IInv'
<1>1. JobInv'
  BY OtherJobs DEF IInv, JobInv
<1>2. DispatchInv'
  <2> SUFFICES ASSUME NEW i \in DOMAIN dispatch'
               PROVE  DispatchOK(dispatch[i])'
    BY DEF DispatchInv
  <2>1. CASE i \in DOMAIN dispatch /\ dispatch'[i] = dispatch[i]
    <3>1. dispatch[i] \in Dispatch /\ DispatchOK(dispatch[i])
      BY <2>1 DEF IInv, TypeOK, DispatchInv
    <3>2. DispatchOK(dispatch[i])'
      BY <2>1, <3>1, OldDispatches DEF DispatchOK, Approved, Audited, SafeTarget
    <3>3. QED
      BY <3>2
  <2>2. QED
    BY <2>1
<1>3. QED
  BY <1>1, <1>2 DEF IInv

\* A step of no handler, which inserts no dispatch.
LEMMA ComposeRows ==
    ASSUME IInv, Evolves, TypeOK', RequestInv', EntitledInv', TokenInv', LadderInv',
           UNCHANGED <<job, dispatch>>
    PROVE  IInv'
<1>1. JobInv'
  BY OtherJobs DEF IInv, JobInv
<1>2. DispatchInv'
  <2> SUFFICES ASSUME NEW i \in DOMAIN dispatch
               PROVE  DispatchOK(dispatch[i])'
    BY DEF DispatchInv
  <2>1. dispatch[i] \in Dispatch /\ DispatchOK(dispatch[i])
    BY DEF IInv, TypeOK, DispatchInv
  <2>2. QED
    BY <2>1, OldDispatches DEF DispatchOK, Approved, Audited, SafeTarget
<1>3. QED
  BY <1>1, <1>2 DEF IInv

-----------------------------------------------------------------------------
(* Rows and jobs keep their type under the updates the actions make *)

LEMMA NoLadderType == NoLadder \in LadderRow
  BY BoundAssumption DEF NoLadder, LadderRow, Levels

LEMMA IdleType == Idle \in Job
  BY NoLadderType, BoundAssumption DEF Idle, Job, JobAt, PCs, Levels

LEMMA BecomeType ==
    ASSUME TypeOK, NEW h \in Handlers, NEW j \in Job, Become(h, j)
    PROVE  /\ job' \in [Handlers -> Job]
           /\ job'[h] = j
           /\ \A g \in Handlers \ {h} : job'[g] = job[g]
  BY DEF TypeOK, Become

LEMMA GotoType ==
    ASSUME TypeOK, NEW h \in Handlers, NEW pc \in PCs, Goto(h, pc)
    PROVE  /\ job' \in [Handlers -> Job]
           /\ job'[h].pc = pc /\ job'[h].req = job[h].req /\ job'[h].user = job[h].user
           /\ \A g \in Handlers \ {h} : job'[g] = job[g]
<1> DEFINE j == JobAt(pc, job[h].user, job[h].req, NoTarget, 0, NoLadder)
<1> job[h].user \in Users \cup {NoUser} /\ job[h].req \in ReqIds \cup {NoReq}
  BY DEF TypeOK, Job
<1>1. j \in Job
  BY NoLadderType, BoundAssumption DEF Job, JobAt, Levels
<1>2. j.pc = pc /\ j.req = job[h].req /\ j.user = job[h].user
  BY DEF JobAt
<1>3. QED
  BY <1>1, <1>2, BecomeType DEF Goto

LEMMA FinishType ==
    ASSUME TypeOK, NEW h \in Handlers, Finish(h)
    PROVE  /\ job' \in [Handlers -> Job]
           /\ JobOK(h)'
           /\ \A g \in Handlers \ {h} : job'[g] = job[g]
<1>1. job' \in [Handlers -> Job] /\ job'[h] = Idle /\ \A g \in Handlers \ {h} : job'[g] = job[g]
  BY IdleType, BecomeType DEF Finish
<1>2. QED
  BY <1>1 DEF JobOK, Idle, JobAt

\* An UPDATE of a submitted request's state, with an approver fit to approve it.
LEMMA UpdateType ==
    ASSUME TypeOK, RequestInv, EntitledInv, NEW r \in ReqIds, request[r].state # "absent",
           NEW state \in ReqStates \ {"absent"}, NEW a \in Users \cup {NoUser},
           a # NoUser => a # request[r].requester /\ a \in entitled[r],
           UNCHANGED <<user, entitled>>,
           request[r].approver # NoUser => a # NoUser,
           UpdateRequest(r, state, a)
    PROVE  /\ request' \in [ReqIds -> Request]
           /\ RequestInv' /\ EntitledInv'
           /\ \A q \in ReqIds : Keeps(q)
           /\ request'[r].state = state /\ request'[r].approver = a
           /\ request'[r].requester = request[r].requester
<1> DEFINE row == [state |-> state, target |-> request[r].target,
                   requester |-> request[r].requester, approver |-> a,
                   ttl |-> request[r].ttl]
<1>1. row \in Request
  BY DEF TypeOK, Request
<1>2. /\ request' \in [ReqIds -> Request]
      /\ request'[r] = row
      /\ \A q \in ReqIds \ {r} : request'[q] = request[q]
  BY <1>1 DEF TypeOK, UpdateRequest
<1>3. \A q \in ReqIds : Keeps(q)
  BY <1>2 DEF Keeps
<1>4. RequestInv'
  <2> SUFFICES ASSUME NEW q \in ReqIds
               PROVE  /\ request'[q].state = "absent" => request'[q] = NoRequest
                      /\ request'[q].state # "absent" =>
                            request'[q].target \in Targets /\ request'[q].requester \in Users
                      /\ request'[q].approver # NoUser =>
                            /\ request'[q].approver # request'[q].requester
                            /\ request'[q].approver \in entitled'[q]
    BY DEF RequestInv, NoRequest
  <2>1. CASE q = r
    BY <1>2, <2>1 DEF RequestInv
  <2>2. CASE q # r
    BY <1>2, <2>2 DEF RequestInv
  <2>3. QED
    BY <2>1, <2>2
<1>5. EntitledInv'
  BY <1>2 DEF EntitledInv, Deciders, MayDecide
<1>6. QED
  BY <1>2, <1>3, <1>4, <1>5

\* A link that stops being valid.
LEMMA TokenSpent ==
    ASSUME TypeOK, TokenInv, UNCHANGED entitled, \A q \in ReqIds : Keeps(q),
           NEW r \in ReqIds, NEW state \in TokenStates \ {"valid"},
           token' = [token EXCEPT ![r] = [state |-> state, approver |-> @.approver]]
    PROVE  token' \in [ReqIds -> Token] /\ TokenInv'
<1> DEFINE row == [state |-> state, approver |-> token[r].approver]
<1>1. row \in Token
  BY DEF TypeOK, Token
<1>2. /\ token' \in [ReqIds -> Token] /\ token'[r] = row
      /\ \A q \in ReqIds \ {r} : token'[q] = token[q]
  BY <1>1 DEF TypeOK
<1>3. TokenInv'
  BY <1>2 DEF TokenInv, Keeps
<1>4. QED
  BY <1>2, <1>3

-----------------------------------------------------------------------------
(* The invariant holds initially and every action keeps it *)

LEMMA InitInv == Init => IInv
<1> SUFFICES ASSUME Init PROVE IInv
  OBVIOUS
<1>1. TypeOK
  BY CoverAssumption, RoleAssumption, BoundAssumption, IdleType, NoLadderType
     DEF Init, TypeOK, User, Request, NoRequest, Token, ReqStates, TokenStates, Levels
<1>2. RequestInv /\ EntitledInv /\ TokenInv /\ LadderInv
  BY DEF Init, RequestInv, EntitledInv, NoRequest, TokenInv, LadderInv, Earned, NoLadder
<1>3. JobInv /\ DispatchInv
  BY DEF Init, JobInv, JobOK, Idle, JobAt, DispatchInv
<1>4. QED
  BY <1>1, <1>2, <1>3 DEF IInv

LEMMA CreateStep ==
    ASSUME IInv, NEW h \in Handlers, NEW u \in Users, NEW t \in Targets, BanCreate(h, u, t)
    PROVE  IInv'
<1> DEFINE j == JobAt("ttl", u, NoReq, t, 0, NoLadder)
<1>1. j \in Job
  BY NoLadderType, BoundAssumption DEF Job, JobAt, PCs, Levels
<1>2. /\ job' \in [Handlers -> Job] /\ job'[h] = j
      /\ \A g \in Handlers \ {h} : job'[g] = job[g]
  BY <1>1, BecomeType DEF IInv, BanCreate
<1>3. TypeOK' /\ Evolves
  BY <1>2, BoundAssumption
     DEF IInv, BanCreate, Succeeds, Fails, TypeOK, Evolves, Keeps
<1>4. RequestInv' /\ EntitledInv' /\ TokenInv' /\ LadderInv'
  BY DEF IInv, BanCreate, RequestInv, EntitledInv, Deciders, MayDecide, TokenInv, LadderInv
<1>5. JobOK(h)'
  BY <1>2 DEF JobOK, JobAt
<1>6. QED
  BY <1>2, <1>3, <1>4, <1>5, Compose DEF BanCreate

LEMMA TTLStep ==
    ASSUME IInv, NEW h \in Handlers, BanCreateTTL(h)
    PROVE  IInv'
<1>1. job[h].user \in Users /\ job[h].target \in Targets
  BY DEF IInv, JobInv, JobOK, BanCreateTTL, At
<1>2. PICK ttl \in Levels :
          Become(h, JobAt("insert", job[h].user, NoReq, job[h].target, ttl, NoLadder))
  BY DEF BanCreateTTL
<1> DEFINE j == JobAt("insert", job[h].user, NoReq, job[h].target, ttl, NoLadder)
<1>3. j \in Job
  BY <1>1, NoLadderType DEF Job, JobAt, PCs
<1>4. /\ job' \in [Handlers -> Job] /\ job'[h] = j
      /\ \A g \in Handlers \ {h} : job'[g] = job[g]
  BY <1>2, <1>3, BecomeType DEF IInv
<1>5. TypeOK' /\ Evolves
  BY <1>4, BoundAssumption
     DEF IInv, BanCreateTTL, Succeeds, Fails, TypeOK, Evolves, Keeps
<1>6. RequestInv' /\ EntitledInv' /\ TokenInv' /\ LadderInv'
  BY DEF IInv, BanCreateTTL, RequestInv, EntitledInv, Deciders, MayDecide, TokenInv, LadderInv
<1>7. JobOK(h)'
  BY <1>1, <1>4 DEF JobOK, JobAt
<1>8. QED
  BY <1>4, <1>5, <1>6, <1>7, Compose DEF BanCreateTTL

LEMMA InsertStep ==
    ASSUME IInv, NEW h \in Handlers, BanCreateInsert(h)
    PROVE  IInv'
<1>1. job[h] \in Job /\ job[h].user \in Users /\ job[h].target \in Targets
  BY DEF IInv, JobInv, JobOK, BanCreateInsert, At, TypeOK
<1>2. LadderInv'
  BY DEF IInv, BanCreateInsert, LadderInv
<1>3. ASSUME NEW r \in ReqIds, request[r].state = "absent", Succeeds,
             request' = [request EXCEPT ![r] =
                [state |-> "pending", target |-> job[h].target, requester |-> job[h].user,
                 approver |-> NoUser, ttl |-> job[h].ttl]],
             entitled' = [entitled EXCEPT ![r] = Deciders],
             Become(h, JobAt("mail", job[h].user, r, NoTarget, 0, NoLadder))
      PROVE  IInv'
  <2> DEFINE row == [state |-> "pending", target |-> job[h].target,
                     requester |-> job[h].user, approver |-> NoUser, ttl |-> job[h].ttl]
             j == JobAt("mail", job[h].user, r, NoTarget, 0, NoLadder)
  <2>1. j \in Job
    BY <1>1, NoLadderType, BoundAssumption DEF Job, JobAt, PCs, Levels
  <2>2. /\ job' \in [Handlers -> Job] /\ job'[h] = j
        /\ \A g \in Handlers \ {h} : job'[g] = job[g]
    BY <1>3, <2>1, BecomeType DEF IInv
  <2>3. row \in Request
    BY <1>1 DEF Request, ReqStates, Job
  <2>4. /\ request' \in [ReqIds -> Request] /\ request'[r] = row
        /\ \A q \in ReqIds \ {r} : request'[q] = request[q]
    BY <1>3, <2>3 DEF IInv, TypeOK
  <2>11. /\ entitled' \in [ReqIds -> SUBSET Users] /\ entitled'[r] = Deciders
         /\ \A q \in ReqIds \ {r} : entitled'[q] = entitled[q]
    <3>1. Deciders \in SUBSET Users
      BY DEF Deciders
    <3>2. QED
      BY <1>3, <3>1 DEF IInv, TypeOK
  <2>5. TypeOK'
    BY <1>3, <2>2, <2>4, <2>11 DEF IInv, BanCreateInsert, Succeeds, TypeOK
  <2>6. \A q \in ReqIds : Keeps(q)
    BY <1>3, <2>4 DEF IInv, RequestInv, Keeps, NoRequest
  <2>7. Evolves
    BY <1>3, <2>6, <2>11 DEF IInv, BanCreateInsert, Evolves, Succeeds
  <2>8. RequestInv'
    BY <1>1, <2>4, <2>11 DEF IInv, RequestInv, NoRequest
  <2>9. JobOK(h)'
    BY <2>2, <2>4 DEF JobOK, JobAt
  <2>12. EntitledInv'
    BY <2>4, <2>11 DEF IInv, EntitledInv, Deciders, MayDecide, BanCreateInsert
  <2>13. TokenInv'
    BY <1>3, <2>4, <2>11 DEF IInv, TokenInv, BanCreateInsert
  <2>10. QED
    BY <1>2, <2>2, <2>5, <2>7, <2>8, <2>9, <2>12, <2>13, Compose DEF BanCreateInsert
<1>4. ASSUME Fails, Finish(h), UNCHANGED <<request, entitled>>
      PROVE  IInv'
  <2>1. TypeOK' /\ Evolves
    BY <1>4, FinishType, BoundAssumption
       DEF IInv, BanCreateInsert, Fails, TypeOK, Evolves, Keeps
  <2>2. RequestInv' /\ EntitledInv' /\ TokenInv'
    BY <1>4
       DEF IInv, BanCreateInsert, RequestInv, EntitledInv, Deciders, MayDecide, TokenInv
  <2>3. QED
    BY <1>2, <1>4, <2>1, <2>2, FinishType, Compose DEF IInv, BanCreateInsert
<1>5. QED
  BY <1>3, <1>4 DEF BanCreateInsert

LEMMA MailStep ==
    ASSUME IInv, NEW h \in Handlers, GenTokensAndSend(h)
    PROVE  IInv'
<1> DEFINE r == job[h].req
<1>1. r \in ReqIds /\ request[r].state # "absent"
  BY DEF IInv, JobInv, JobOK, GenTokensAndSend, At
<1>2. \/ UNCHANGED token
      \/ \E a \in Deciders :
            token' = [token EXCEPT ![r] = [state |-> "valid", approver |-> a]]
  BY DEF GenTokensAndSend
<1>3. token' \in [ReqIds -> Token] /\ TokenInv'
  <2>1. CASE UNCHANGED token
    BY <2>1 DEF IInv, TypeOK, TokenInv, GenTokensAndSend
  <2>2. ASSUME NEW a \in Deciders,
               token' = [token EXCEPT ![r] = [state |-> "valid", approver |-> a]]
        PROVE  token' \in [ReqIds -> Token] /\ TokenInv'
    <3>1. a \in Users /\ [state |-> "valid", approver |-> a] \in Token
      BY DEF Deciders, Token, TokenStates
    <3>2. /\ token' \in [ReqIds -> Token]
          /\ token'[r] = [state |-> "valid", approver |-> a]
          /\ \A q \in ReqIds \ {r} : token'[q] = token[q]
      BY <1>1, <2>2, <3>1 DEF IInv, TypeOK
    <3>3. TokenInv'
      BY <1>1, <2>2, <3>2 DEF IInv, TokenInv, EntitledInv, GenTokensAndSend
    <3>4. QED
      BY <3>2, <3>3
  <2>3. QED
    BY <1>2, <2>1, <2>2
<1>4. TypeOK' /\ Evolves
  BY <1>3, FinishType, BoundAssumption
     DEF IInv, GenTokensAndSend, Succeeds, Fails, TypeOK, Evolves, Keeps
<1>5. RequestInv' /\ EntitledInv' /\ LadderInv'
  BY DEF IInv, GenTokensAndSend, RequestInv, EntitledInv, Deciders, MayDecide, LadderInv
<1>6. QED
  BY <1>3, <1>4, <1>5, FinishType, Compose DEF IInv, GenTokensAndSend

LEMMA ApproveStep ==
    ASSUME IInv, NEW h \in Handlers, NEW u \in Users, NEW r \in ReqIds, BanApprove(h, u, r)
    PROVE  IInv'
<1> DEFINE j == JobAt("activate", u, r, NoTarget, 0, NoLadder)
<1>1. j \in Job
  BY NoLadderType, BoundAssumption DEF Job, JobAt, PCs, Levels
<1>2. /\ job' \in [Handlers -> Job] /\ job'[h] = j
      /\ \A g \in Handlers \ {h} : job'[g] = job[g]
  BY <1>1, BecomeType DEF IInv, BanApprove
<1>3. TypeOK' /\ Evolves
  BY <1>2 DEF IInv, BanApprove, TypeOK, Evolves, Keeps
<1>4. RequestInv' /\ EntitledInv' /\ TokenInv' /\ LadderInv'
  BY DEF IInv, BanApprove, RequestInv, EntitledInv, Deciders, MayDecide, TokenInv, LadderInv
<1>5. JobOK(h)'
  BY <1>2 DEF IInv, BanApprove, JobOK, JobAt, EntitledInv
<1>6. QED
  BY <1>2, <1>3, <1>4, <1>5, Compose DEF BanApprove

LEMMA UpdateStep ==
    ASSUME IInv, NEW h \in Handlers, BanApproveUpdate(h)
    PROVE  IInv'
<1> DEFINE r == job[h].req
           u == job[h].user
<1>1. /\ r \in ReqIds /\ u \in Users /\ u \in entitled[r]
      /\ request[r].state # "absent" /\ request[r].requester # u
  BY DEF IInv, JobInv, JobOK, BanApproveUpdate, At, TypeOK
<1>2. LadderInv'
  BY DEF IInv, BanApproveUpdate, LadderInv
<1>3. CASE Succeeds /\ UpdateRequest(r, "active", u) /\ Goto(h, "audit")
  <2>1. /\ job' \in [Handlers -> Job]
        /\ job'[h].pc = "audit" /\ job'[h].req = r /\ job'[h].user = u
        /\ \A g \in Handlers \ {h} : job'[g] = job[g]
    BY <1>3, GotoType DEF IInv, PCs
  <2>2. /\ request' \in [ReqIds -> Request] /\ RequestInv' /\ EntitledInv'
        /\ \A q \in ReqIds : Keeps(q)
        /\ request'[r].state = "active" /\ request'[r].approver = u
        /\ request'[r].requester = request[r].requester
    BY <1>1, <1>3, UpdateType, NoneAssumption DEF IInv, ReqStates, BanApproveUpdate
  <2>6. TokenInv'
    BY <2>2 DEF IInv, TokenInv, Keeps, BanApproveUpdate
  <2>3. TypeOK' /\ Evolves
    BY <1>3, <2>1, <2>2 DEF IInv, BanApproveUpdate, Succeeds, TypeOK, Evolves
  <2>4. JobOK(h)'
    BY <1>1, <2>1, <2>2, NoneAssumption DEF JobOK, Approved
  <2>5. QED
    BY <1>2, <2>1, <2>2, <2>3, <2>4, <2>6, Compose DEF BanApproveUpdate
<1>4. CASE Fails /\ Finish(h) /\ UNCHANGED request
  <2>1. TypeOK' /\ Evolves
    BY <1>4, FinishType, BoundAssumption
       DEF IInv, BanApproveUpdate, Fails, TypeOK, Evolves, Keeps
  <2>2. RequestInv' /\ EntitledInv' /\ TokenInv'
    BY <1>4
       DEF IInv, BanApproveUpdate, RequestInv, EntitledInv, Deciders, MayDecide, TokenInv
  <2>3. QED
    BY <1>2, <1>4, <2>1, <2>2, FinishType, Compose DEF IInv, BanApproveUpdate
<1>5. QED
  BY <1>3, <1>4 DEF BanApproveUpdate

LEMMA RejectStep ==
    ASSUME IInv, NEW u \in Users, NEW r \in ReqIds, BanReject(u, r)
    PROVE  IInv'
<1>1. request[r].approver \in Users \cup {NoUser}
  BY DEF IInv, TypeOK, Request
<1>2. /\ request' \in [ReqIds -> Request] /\ RequestInv' /\ EntitledInv'
      /\ \A q \in ReqIds : Keeps(q)
  BY <1>1, UpdateType DEF IInv, BanReject, RequestInv, ReqStates
<1>3. TypeOK' /\ Evolves
  BY <1>2 DEF IInv, BanReject, TypeOK, Evolves
<1>4. TokenInv' /\ LadderInv'
  BY <1>2 DEF IInv, BanReject, TokenInv, Keeps, LadderInv
<1>5. QED
  BY <1>2, <1>3, <1>4, ComposeRows DEF BanReject

LEMMA RedeemStep ==
    ASSUME IInv, NEW h \in Handlers, NEW r \in ReqIds, ApproveDoApprove(h, r)
    PROVE  IInv'
<1> DEFINE a == token[r].approver
           j == JobAt("audit", a, r, NoTarget, 0, NoLadder)
<1>1. /\ a \in Users /\ a \in entitled[r]
      /\ request[r].requester # a /\ request[r].state = "pending"
  BY DEF IInv, TypeOK, TokenInv, ApproveDoApprove, Redeem
<1>2. /\ request' \in [ReqIds -> Request] /\ RequestInv' /\ EntitledInv'
      /\ \A q \in ReqIds : Keeps(q)
      /\ request'[r].state = "active" /\ request'[r].approver = a
      /\ request'[r].requester = request[r].requester
  <2>1. /\ UpdateRequest(r, "active", a) /\ UNCHANGED <<user, entitled>>
        /\ "active" \in ReqStates \ {"absent"} /\ a \in Users \cup {NoUser} /\ a # NoUser
        /\ request[r].state # "absent" /\ a # request[r].requester
    BY <1>1, NoneAssumption DEF ApproveDoApprove, Redeem, ReqStates
  <2>2. QED
    BY <1>1, <2>1, UpdateType DEF IInv
<1>3. token' \in [ReqIds -> Token] /\ TokenInv'
  <2>1. /\ token' = [token EXCEPT ![r] = [state |-> "used", approver |-> @.approver]]
        /\ UNCHANGED entitled
    BY DEF ApproveDoApprove, Redeem
  <2>2. "used" \in TokenStates \ {"valid"}
    BY DEF TokenStates
  <2>3. QED
    BY <1>2, <2>1, <2>2, TokenSpent, Zenon DEF IInv
<1>4. j \in Job
  BY <1>1, NoLadderType, BoundAssumption DEF Job, JobAt, PCs, Levels
<1>5. /\ job' \in [Handlers -> Job] /\ job'[h] = j
      /\ \A g \in Handlers \ {h} : job'[g] = job[g]
  BY <1>4, BecomeType DEF IInv, ApproveDoApprove
<1>6. TypeOK' /\ Evolves
  BY <1>2, <1>3, <1>5 DEF IInv, ApproveDoApprove, Redeem, TypeOK, Evolves
<1>7. JobOK(h)'
  BY <1>1, <1>2, <1>5, NoneAssumption DEF JobOK, JobAt, Approved
<1>8. LadderInv'
  BY DEF IInv, ApproveDoApprove, Redeem, LadderInv
<1>9. QED
  BY <1>2, <1>3, <1>5, <1>6, <1>7, <1>8, Compose DEF ApproveDoApprove, Redeem

LEMMA RedeemRejectStep ==
    ASSUME IInv, NEW r \in ReqIds, ApproveDoReject(r)
    PROVE  IInv'
<1>1. request[r].approver \in Users \cup {NoUser} /\ request[r].state = "pending"
  BY DEF IInv, TypeOK, Request, ApproveDoReject, Redeem
<1>2. /\ request' \in [ReqIds -> Request] /\ RequestInv' /\ EntitledInv'
      /\ \A q \in ReqIds : Keeps(q)
  BY <1>1, UpdateType DEF IInv, ApproveDoReject, Redeem, RequestInv, ReqStates
<1>3. token' \in [ReqIds -> Token] /\ TokenInv'
  <2>1. /\ token' = [token EXCEPT ![r] = [state |-> "used", approver |-> @.approver]]
        /\ UNCHANGED entitled
    BY DEF ApproveDoReject, Redeem
  <2>2. "used" \in TokenStates \ {"valid"}
    BY DEF TokenStates
  <2>3. QED
    BY <1>2, <2>1, <2>2, TokenSpent, Zenon DEF IInv
<1>4. TypeOK' /\ Evolves
  BY <1>2, <1>3 DEF IInv, ApproveDoReject, Redeem, TypeOK, Evolves
<1>5. LadderInv'
  BY DEF IInv, ApproveDoReject, Redeem, LadderInv
<1>6. QED
  BY <1>2, <1>3, <1>4, <1>5, ComposeRows DEF ApproveDoReject, Redeem

LEMMA ExpiryStep ==
    ASSUME IInv, NEW r \in ReqIds, TokenExpires(r)
    PROVE  IInv'
<1>1. token' \in [ReqIds -> Token] /\ TokenInv'
  <2>1. /\ token' = [token EXCEPT ![r] = [state |-> "expired", approver |-> @.approver]]
        /\ UNCHANGED entitled /\ \A q \in ReqIds : Keeps(q)
    BY DEF TokenExpires, Keeps
  <2>2. "expired" \in TokenStates \ {"valid"}
    BY DEF TokenStates
  <2>3. QED
    BY <2>1, <2>2, TokenSpent, Zenon DEF IInv
<1>2. TypeOK' /\ Evolves
  BY <1>1 DEF IInv, TokenExpires, TypeOK, Evolves, Keeps
<1>3. RequestInv' /\ EntitledInv' /\ LadderInv'
  BY DEF IInv, TokenExpires, RequestInv, EntitledInv, Deciders, MayDecide, LadderInv
<1>4. QED
  BY <1>1, <1>2, <1>3, ComposeRows DEF TokenExpires

LEMMA AuditStep ==
    ASSUME IInv, NEW h \in Handlers, AuditApproval(h)
    PROVE  IInv'
<1> DEFINE u == job[h].user
<1> PICK r \in ReqIds : r = job[h].req
  BY DEF IInv, JobInv, JobOK, AuditApproval, At
<1>1. u \in Users /\ Approved(r) /\ request[r].requester # u
  BY DEF IInv, JobInv, JobOK, AuditApproval, At
<1>2. /\ job' \in [Handlers -> Job]
      /\ job'[h].pc = "guard" /\ job'[h].req = r /\ job'[h].user = u
      /\ \A g \in Handlers \ {h} : job'[g] = job[g]
  BY GotoType DEF IInv, AuditApproval, PCs
<1>3. audit' \in SUBSET AuditRow
  BY <1>1 DEF IInv, AuditApproval, TypeOK, AuditRow
<1>4. TypeOK' /\ Evolves
  BY <1>2, <1>3, BoundAssumption
     DEF IInv, AuditApproval, Succeeds, Fails, TypeOK, Evolves, Keeps
<1>5. RequestInv' /\ EntitledInv' /\ TokenInv' /\ LadderInv'
  BY DEF IInv, AuditApproval, RequestInv, EntitledInv, Deciders, MayDecide, TokenInv, LadderInv
<1>6. faults' = 0 => Audited(r)'
  <2>1. ASSUME faults' = 0 PROVE [req |-> r, user |-> u] \in audit'
    BY <2>1, BoundAssumption DEF IInv, TypeOK, AuditApproval, Fails
  <2>2. request'[r].requester # u
    BY <1>1 DEF AuditApproval
  <2>3. QED
    BY <2>1, <2>2 DEF Audited
<1>7. JobOK(h)'
  BY <1>1, <1>2, <1>6 DEF JobOK, Approved, AuditApproval
<1>8. QED
  BY <1>2, <1>4, <1>5, <1>7, Compose DEF AuditApproval

LEMMA CheckStep ==
    ASSUME IInv, NEW h \in Handlers, SafetyCheck(h)
    PROVE  IInv'
<1> DEFINE u == job[h].user
<1> PICK r \in ReqIds : r = job[h].req
  BY DEF IInv, JobInv, JobOK, SafetyCheck, At
<1>1. u \in Users /\ Approved(r) /\ (faults = 0 => Audited(r))
  BY DEF IInv, JobInv, JobOK, SafetyCheck, At
<1>2. PICK entries \in {protected, {}} :
          /\ \/ entries = protected /\ Succeeds
             \/ entries = {} /\ Fails
          /\ Goto(h, IF AssertSafe(request[r].target, entries) THEN "lookup" ELSE "block")
  BY DEF SafetyCheck
<1> DEFINE pc == IF AssertSafe(request[r].target, entries) THEN "lookup" ELSE "block"
<1>3. /\ job' \in [Handlers -> Job]
      /\ job'[h].pc = pc /\ job'[h].req = r /\ job'[h].user = u
      /\ \A g \in Handlers \ {h} : job'[g] = job[g]
  <2>1. pc \in PCs
    BY DEF PCs
  <2>2. QED
    BY <1>2, <2>1, GotoType DEF IInv
<1>4. TypeOK' /\ Evolves
  BY <1>2, <1>3, BoundAssumption
     DEF IInv, SafetyCheck, Succeeds, Fails, TypeOK, Evolves, Keeps
<1>5. RequestInv' /\ EntitledInv' /\ TokenInv' /\ LadderInv'
  BY DEF IInv, SafetyCheck, RequestInv, EntitledInv, Deciders, MayDecide, TokenInv, LadderInv
<1>6. faults' = 0 => Audited(r)'
  BY <1>1, <1>4, AuditedStays DEF Evolves, Approved
<1>7. ASSUME pc = "lookup" PROVE SafeTarget(r)'
  <2>1. AssertSafe(request[r].target, entries)
    BY <1>7
  <2>2. request' = request /\ protected' = protected
    BY DEF SafetyCheck
  <2>3. CASE faults' = 0 /\ edits' = 0
    <3>1. entries = protected
      BY <1>2, <2>3, BoundAssumption DEF IInv, TypeOK, Fails
    <3>2. QED
      BY <2>1, <2>2, <2>3, <3>1 DEF SafeTarget, AssertSafe
  <2>4. CASE ~(faults' = 0 /\ edits' = 0)
    BY <2>1, <2>2, <2>4, SafeWeaken DEF SafeTarget, AssertSafe
  <2>5. QED
    BY <2>3, <2>4
<1>8. JobOK(h)'
  <2>1. Approved(r)'
    BY <1>1 DEF SafetyCheck, Approved
  <2>2. pc \in {"lookup", "block"}
    OBVIOUS
  <2>3. QED
    BY <1>1, <1>3, <1>6, <1>7, <2>1, <2>2 DEF JobOK, Approved, SafeTarget
<1>9. QED
  BY <1>3, <1>4, <1>5, <1>8, Compose DEF SafetyCheck

LEMMA BlockStep ==
    ASSUME IInv, NEW h \in Handlers, SafetyBlock(h)
    PROVE  IInv'
<1> DEFINE r == job[h].req
<1>1. /\ r \in ReqIds /\ Approved(r)
      /\ request[r].approver \in Users \cup {NoUser}
  BY DEF IInv, JobInv, JobOK, SafetyBlock, At, TypeOK, Request
<1>2. /\ request' \in [ReqIds -> Request] /\ RequestInv' /\ EntitledInv'
      /\ \A q \in ReqIds : Keeps(q)
  <2>1. CASE UpdateRequest(r, "safety_blocked", request[r].approver)
    BY <1>1, <2>1, UpdateType DEF IInv, RequestInv, ReqStates, Approved, SafetyBlock
  <2>2. CASE UNCHANGED request
    BY <2>2
       DEF IInv, TypeOK, RequestInv, EntitledInv, Deciders, MayDecide, Keeps, SafetyBlock
  <2>3. QED
    BY <2>1, <2>2 DEF SafetyBlock
<1>3. TypeOK' /\ Evolves
  BY <1>2, FinishType, BoundAssumption
     DEF IInv, SafetyBlock, Succeeds, Fails, TypeOK, Evolves
<1>4. TokenInv' /\ LadderInv'
  BY <1>2 DEF IInv, SafetyBlock, TokenInv, Keeps, LadderInv
<1>5. QED
  BY <1>2, <1>3, <1>4, FinishType, Compose DEF IInv, SafetyBlock

LEMMA LookupStep ==
    ASSUME IInv, NEW h \in Handlers, DispatchLookup(h)
    PROVE  IInv'
<1> DEFINE u == job[h].user
<1> PICK r \in ReqIds : r = job[h].req
  BY DEF IInv, JobInv, JobOK, DispatchLookup, At
<1>1. /\ u \in Users /\ Approved(r)
      /\ faults = 0 => Audited(r)
      /\ SafeTarget(r)
  BY DEF IInv, JobInv, JobOK, DispatchLookup, At
<1>2. PICK pc \in {"ladderRead", "dispatch"} : Goto(h, pc)
  BY DEF DispatchLookup
<1>3. /\ job' \in [Handlers -> Job]
      /\ job'[h].pc = pc /\ job'[h].req = r /\ job'[h].user = u
      /\ \A g \in Handlers \ {h} : job'[g] = job[g]
  BY <1>2, GotoType DEF IInv, PCs
<1>4. TypeOK' /\ Evolves
  BY <1>3, BoundAssumption
     DEF IInv, DispatchLookup, Succeeds, Fails, TypeOK, Evolves, Keeps
<1>5. RequestInv' /\ EntitledInv' /\ TokenInv' /\ LadderInv'
  BY DEF IInv, DispatchLookup, RequestInv, EntitledInv, Deciders, MayDecide, TokenInv, LadderInv
<1>6. (faults' = 0 => Audited(r)') /\ SafeTarget(r)' /\ Approved(r)'
  BY <1>1, <1>4, AuditedStays, SafeStays DEF Evolves, Approved, Keeps
<1>7. JobOK(h)'
  BY <1>1, <1>3, <1>6 DEF JobOK
<1>8. QED
  BY <1>3, <1>4, <1>5, <1>7, Compose DEF DispatchLookup

LEMMA DispatchStep ==
    ASSUME IInv, NEW h \in Handlers, DispatchInsert(h)
    PROVE  IInv'
<1> DEFINE u == job[h].user
<1> PICK r \in ReqIds : r = job[h].req
  BY DEF IInv, JobInv, JobOK, DispatchInsert, At
<1>1. /\ u \in Users /\ Approved(r)
      /\ faults = 0 => Audited(r)
      /\ SafeTarget(r)
  BY DEF IInv, JobInv, JobOK, DispatchInsert, At
<1>2. RequestInv' /\ EntitledInv' /\ TokenInv' /\ LadderInv'
  BY DEF IInv, DispatchInsert, RequestInv, EntitledInv, Deciders, MayDecide, TokenInv, LadderInv
<1> DEFINE d == [req |-> r, target |-> request[r].target, ttl |-> request[r].ttl,
                 state |-> "pending"]
<1>3. CASE Succeeds /\ dispatch' = Append(dispatch, d) /\ Goto(h, "ladderRead")
  <2>1. /\ job' \in [Handlers -> Job]
        /\ job'[h].pc = "ladderRead" /\ job'[h].req = r /\ job'[h].user = u
        /\ \A g \in Handlers \ {h} : job'[g] = job[g]
    BY <1>3, GotoType DEF IInv, PCs
  <2>2. d \in Dispatch
    BY <1>1 DEF IInv, TypeOK, RequestInv, Request, Dispatch, Approved
  <2>3. /\ dispatch' \in Seq(Dispatch)
        /\ \A i \in DOMAIN dispatch' : \/ i \in DOMAIN dispatch /\ dispatch'[i] = dispatch[i]
                                       \/ dispatch'[i] = d
    BY <1>3, <2>2 DEF IInv, TypeOK
  <2>4. TypeOK' /\ Evolves
    BY <1>3, <2>1, <2>3 DEF IInv, DispatchInsert, Succeeds, TypeOK, Evolves, Keeps
  <2>5. request' = request /\ d.req = r /\ d.target = request[r].target /\ d.ttl = request[r].ttl
    BY DEF DispatchInsert
  <2>6. (faults' = 0 => Audited(r)') /\ SafeTarget(r)' /\ Approved(r)'
    BY <1>1, <2>4, AuditedStays, SafeStays DEF Evolves, Approved, Keeps
  <2>7. ASSUME NEW i \in DOMAIN dispatch', dispatch'[i] = d
        PROVE  DispatchOK(dispatch[i])'
    BY <2>5, <2>6, <2>7 DEF DispatchOK, Approved, Audited, SafeTarget
  <2>8. JobOK(h)'
    BY <1>1, <2>1, <2>6 DEF JobOK
  <2>9. QED
    BY <1>2, <2>1, <2>3, <2>4, <2>7, <2>8, Compose
<1>4. CASE Fails /\ Finish(h) /\ UNCHANGED dispatch
  <2>1. TypeOK' /\ Evolves
    BY <1>4, FinishType, BoundAssumption
       DEF IInv, DispatchInsert, Fails, TypeOK, Evolves, Keeps
  <2>2. QED
    BY <1>2, <1>4, <2>1, FinishType, Compose DEF IInv
<1>5. QED
  BY <1>3, <1>4 DEF DispatchInsert

LEMMA ReadStep ==
    ASSUME IInv, NEW h \in Handlers, LadderRead(h)
    PROVE  IInv'
<1> DEFINE u == job[h].user
<1> PICK r \in ReqIds : r = job[h].req
  BY DEF IInv, JobInv, JobOK, LadderRead, At
<1> DEFINE row == ladder[request[r].target]
           j == JobAt("ladderWrite", u, r, NoTarget, 0, row)
<1>1. /\ u \in Users /\ Approved(r)
      /\ request[r].target \in Targets
  BY DEF IInv, JobInv, JobOK, RequestInv, LadderRead, At, Approved
<1>2. row \in LadderRow /\ Earned(row)
  BY <1>1 DEF IInv, TypeOK, LadderInv
<1>3. RequestInv' /\ EntitledInv' /\ TokenInv' /\ LadderInv'
  BY DEF IInv, LadderRead, RequestInv, EntitledInv, Deciders, MayDecide, TokenInv, LadderInv
<1>4. CASE Succeeds /\ Become(h, j)
  <2>1. j \in Job
    BY <1>1, <1>2, BoundAssumption DEF Job, JobAt, PCs, Levels
  <2>2. /\ job' \in [Handlers -> Job] /\ job'[h] = j
        /\ \A g \in Handlers \ {h} : job'[g] = job[g]
    BY <1>4, <2>1, BecomeType DEF IInv
  <2>3. TypeOK' /\ Evolves
    BY <1>4, <2>2 DEF IInv, LadderRead, Succeeds, TypeOK, Evolves, Keeps
  <2>4. Approved(r)'
    BY <1>1 DEF LadderRead, Approved
  <2>5. JobOK(h)'
    BY <1>1, <1>2, <2>2, <2>4 DEF JobOK, JobAt, Earned
  <2>6. QED
    BY <1>3, <2>2, <2>3, <2>5, Compose DEF LadderRead
<1>5. CASE Fails /\ Finish(h)
  <2>1. TypeOK' /\ Evolves
    BY <1>5, FinishType, BoundAssumption
       DEF IInv, LadderRead, Fails, TypeOK, Evolves, Keeps
  <2>2. QED
    BY <1>3, <1>5, <2>1, FinishType, Compose DEF IInv, LadderRead
<1>6. QED
  BY <1>4, <1>5 DEF LadderRead

\* The row RegisterBan computes keeps its type, and its level was earned.
LEMMA RegisterType ==
    ASSUME NEW row \in LadderRow, Earned(row)
    PROVE  RegisterBan(row) \in LadderRow /\ Earned(RegisterBan(row))
<1> DEFINE level == IF row.observing /\ row.level < MaxLevel THEN row.level + 1
                                                           ELSE row.level
<1>1. row.level \in Levels /\ row.count \in Nat /\ row.level \in Nat
  BY BoundAssumption DEF LadderRow, Levels
<1>2. level \in Levels
  BY <1>1, BoundAssumption DEF Levels
<1>3. level < row.count + 1
  BY <1>1 DEF Earned, NoLadder
<1>4. RegisterBan(row) = [known |-> TRUE, level |-> level, count |-> row.count + 1,
                          observing |-> level < MaxLevel]
  BY DEF RegisterBan
<1>5. (level < MaxLevel) \in BOOLEAN
  OBVIOUS
<1>6. RegisterBan(row) \in LadderRow
  BY <1>1, <1>2, <1>4, <1>5 DEF LadderRow
<1>7. Earned(RegisterBan(row))
  BY <1>3, <1>4 DEF Earned
<1>8. QED
  BY <1>6, <1>7

\* The ladder is a table of earned rows after one of them was replaced by another.
LEMMA LadderType ==
    ASSUME TypeOK, LadderInv, NEW t \in Targets, NEW row \in LadderRow, Earned(row),
           ladder' = [ladder EXCEPT ![t] = row]
    PROVE  ladder' \in [Targets -> LadderRow] /\ LadderInv'
<1>1. /\ ladder' \in [Targets -> LadderRow] /\ ladder'[t] = row
      /\ \A s \in Targets \ {t} : ladder'[s] = ladder[s]
  BY DEF TypeOK
<1>2. LadderInv'
  BY <1>1 DEF LadderInv, Earned
<1>3. QED
  BY <1>1, <1>2

LEMMA WriteStep ==
    ASSUME IInv, NEW h \in Handlers, LadderWrite(h)
    PROVE  IInv'
<1> DEFINE row == job[h].row
           t == request[job[h].req].target
<1>1. /\ job[h].req \in ReqIds /\ t \in Targets
      /\ row \in LadderRow /\ Earned(row)
  BY DEF IInv, JobInv, JobOK, RequestInv, LadderWrite, At, Approved, TypeOK, Job
<1>2. RegisterBan(row) \in LadderRow /\ Earned(RegisterBan(row))
  BY <1>1, RegisterType
<1>3. ladder' \in [Targets -> LadderRow] /\ LadderInv'
  <2>1. CASE ladder' = [ladder EXCEPT ![t] = RegisterBan(row)]
    BY <1>1, <1>2, <2>1, LadderType DEF IInv
  <2>2. CASE UNCHANGED ladder
    BY <2>2 DEF IInv, TypeOK, LadderInv, Earned
  <2>3. QED
    BY <2>1, <2>2 DEF LadderWrite
<1>4. TypeOK' /\ Evolves
  BY <1>3, FinishType, BoundAssumption
     DEF IInv, LadderWrite, Succeeds, Fails, TypeOK, Evolves, Keeps
<1>5. RequestInv' /\ EntitledInv' /\ TokenInv'
  BY DEF IInv, LadderWrite, RequestInv, EntitledInv, Deciders, MayDecide, TokenInv
<1>6. QED
  BY <1>3, <1>4, <1>5, FinishType, Compose DEF IInv, LadderWrite

LEMMA WindowStep ==
    ASSUME IInv, NEW t \in Targets, ObserveWindowEnds(t)
    PROVE  IInv'
<1> DEFINE row == [known |-> ladder[t].known, level |-> ladder[t].level,
                   count |-> ladder[t].count, observing |-> FALSE]
<1>1. ladder[t] \in LadderRow /\ Earned(ladder[t]) /\ ladder[t].observing
  BY DEF IInv, TypeOK, LadderInv, ObserveWindowEnds
<1>2. row \in LadderRow /\ Earned(row)
  BY <1>1 DEF LadderRow, Earned, NoLadder
<1>3. ladder' \in [Targets -> LadderRow] /\ LadderInv'
  BY <1>2, LadderType DEF IInv, ObserveWindowEnds
<1>4. TypeOK' /\ Evolves
  BY <1>3 DEF IInv, ObserveWindowEnds, TypeOK, Evolves, Keeps
<1>5. RequestInv' /\ EntitledInv' /\ TokenInv'
  BY DEF IInv, ObserveWindowEnds, RequestInv, EntitledInv, Deciders, MayDecide, TokenInv
<1>6. QED
  BY <1>3, <1>4, <1>5, ComposeRows DEF ObserveWindowEnds

LEMMA UserStep ==
    ASSUME IInv, NEW u \in Users, NEW row \in User, UpdateUser(u, row)
    PROVE  IInv'
<1>1. user' \in [Users -> User] /\ Deciders' \subseteq Users
  BY DEF IInv, UpdateUser, TypeOK, Deciders
<1>2. /\ entitled' \in [ReqIds -> SUBSET Users]
      /\ \A r \in ReqIds : request[r].state # "absent" =>
            entitled'[r] = entitled[r] \cup Deciders'
  BY <1>1 DEF IInv, UpdateUser, TypeOK
<1>3. TypeOK' /\ Evolves
  BY <1>1, <1>2, BoundAssumption DEF IInv, UpdateUser, TypeOK, Evolves, Keeps
<1>4. RequestInv'
  <2>1. \A r \in ReqIds : request[r].approver # NoUser => request[r].state # "absent"
    BY DEF IInv, RequestInv, NoRequest
  <2>2. QED
    BY <1>2, <2>1 DEF IInv, UpdateUser, RequestInv
<1>5. EntitledInv' /\ TokenInv' /\ LadderInv'
  BY <1>2 DEF IInv, UpdateUser, EntitledInv, TokenInv, LadderInv
<1>6. QED
  BY <1>3, <1>4, <1>5, ComposeRows DEF UpdateUser

LEMMA ToggleStep ==
    ASSUME IInv, NEW actor \in Users, NEW u \in Users, UserToggleActive(actor, u)
    PROVE  IInv'
<1>1. [active |-> ~user[u].active, role |-> user[u].role] \in User
  BY DEF IInv, TypeOK, User
<1>2. QED
  BY <1>1, UserStep DEF UserToggleActive

LEMMA RoleStep ==
    ASSUME IInv, NEW actor \in Users, NEW u \in Users, NEW role \in NewRoles,
           UserChangeRole(actor, u, role)
    PROVE  IInv'
<1>1. [active |-> user[u].active, role |-> role] \in User
  BY RoleAssumption DEF IInv, TypeOK, User
<1>2. QED
  BY <1>1, UserStep DEF UserChangeRole

LEMMA EditStep ==
    ASSUME IInv, NEW t \in Targets, EditProtected(t)
    PROVE  IInv'
<1>1. TypeOK' /\ Evolves
  BY BoundAssumption DEF IInv, EditProtected, TypeOK, Evolves, Keeps
<1>2. RequestInv' /\ EntitledInv' /\ TokenInv' /\ LadderInv'
  BY DEF IInv, EditProtected, RequestInv, EntitledInv, Deciders, MayDecide, TokenInv, LadderInv
<1>3. QED
  BY <1>1, <1>2, ComposeRows DEF EditProtected

LEMMA CrashStep ==
    ASSUME IInv, Crash
    PROVE  IInv'
<1>1. TypeOK'
  BY IdleType, BoundAssumption DEF IInv, Crash, TypeOK
<1>2. JobInv'
  BY DEF Crash, JobInv, JobOK, Idle, JobAt
<1>3. RequestInv' /\ EntitledInv' /\ TokenInv' /\ LadderInv'
  BY DEF IInv, Crash, RequestInv, EntitledInv, Deciders, MayDecide, TokenInv, LadderInv
<1>4. DispatchInv'
  BY DEF IInv, Crash, DispatchInv, DispatchOK, Approved, Audited, SafeTarget
<1>5. QED
  BY <1>1, <1>2, <1>3, <1>4 DEF IInv

LEMMA HandlerStep ==
    ASSUME IInv, NEW h \in Handlers, Arrive(h) \/ Step(h)
    PROVE  IInv'
<1>1. CASE Arrive(h)
  BY <1>1, CreateStep, ApproveStep, RedeemStep DEF Arrive
<1>2. CASE Step(h)
  BY <1>2, TTLStep, InsertStep, MailStep, UpdateStep, AuditStep, CheckStep, BlockStep,
     LookupStep, DispatchStep, ReadStep, WriteStep DEF Step
<1>3. QED
  BY <1>1, <1>2

LEMMA NextInv == IInv /\ [Next]_vars => IInv'
<1> SUFFICES ASSUME IInv, [Next]_vars PROVE IInv'
  OBVIOUS
<1>1. CASE Next
  BY <1>1, HandlerStep, RejectStep, RedeemRejectStep, ExpiryStep, WindowStep, EditStep,
     ToggleStep, RoleStep, CrashStep DEF Next
<1>2. CASE UNCHANGED vars
  <2>1. TypeOK' /\ RequestInv' /\ EntitledInv' /\ TokenInv' /\ LadderInv'
    BY <1>2 DEF vars, IInv, TypeOK, RequestInv, EntitledInv, Deciders, MayDecide, TokenInv, LadderInv
  <2>2. Evolves
    BY <1>2 DEF vars, Evolves, Keeps
  <2>3. QED
    BY <1>2, <2>1, <2>2, ComposeRows DEF vars
<1>3. QED
  BY <1>1, <1>2

-----------------------------------------------------------------------------
(* The theorems *)

\* The invariant holds in every reachable state.
LEMMA Invariance == Spec => []IInv
  BY InitInv, NextInv, PTL DEF Spec

\* Type correctness: the tables hold well-formed rows and every handler is at one of
\* its statements, for any number of users, requests, targets and handlers.
THEOREM TypeCorrect == Spec => []TypeOK
<1>1. IInv => TypeOK
  BY DEF IInv
<1>2. QED
  BY <1>1, Invariance, PTL

\* Four eyes: whatever handlers race, fail or die and whoever is enabled, disabled,
\* promoted or demoted meanwhile, every approver on record is another user than the
\* requester and could have decided the request at some time since its submission, and
\* every dispatch has one on record (handlers.go banApprove and approveDo).
THEOREM FourEyesHolds == Spec => []FourEyes
<1>1. IInv => FourEyes
  BY DEF IInv, TypeOK, Dispatch, RequestInv, DispatchInv, DispatchOK, Approved, FourEyes
<1>2. QED
  BY <1>1, Invariance, PTL

\* The audit row is written before the dispatch: as long as no statement fails, every
\* dispatch is traced to an approval by another user, in every crash and race.
THEOREM AuditHolds == Spec => []DispatchIsAudited
<1>1. IInv => DispatchIsAudited
  BY DEF IInv, DispatchInv, DispatchOK, Audited, DispatchIsAudited
<1>2. QED
  BY <1>1, Invariance, PTL

\* The safety set: no dispatch overlaps a built-in protected entry, and none overlaps
\* a seeded one unless a read has failed or the set was edited (CreateDispatch).
THEOREM SafetyHolds == Spec => []NoUnsafeDispatch
<1>1. IInv => NoUnsafeDispatch
  BY DEF IInv, DispatchInv, DispatchOK, SafeTarget, AssertSafe, Harmless, NoUnsafeDispatch
<1>2. QED
  BY <1>1, Invariance, PTL

\* The penalty ladder: a target's level is below its number of recorded bans, whatever
\* updates of recordLadder are lost to races, failures and crashes.
THEOREM LadderHolds == Spec => []LadderEarned
<1>1. IInv => LadderEarned
  BY DEF IInv, LadderInv, Earned, LadderEarned
<1>2. QED
  BY <1>1, Invariance, PTL

-----------------------------------------------------------------------------
(* Steps: what none may do, what an approval may never lose, and that each is a step
   of GovernedBan or of nothing that GovernedBan sees. *)

Deciding == {"activate", "audit", "guard", "block", "lookup", "dispatch"}
Checked == {"lookup", "dispatch"}
Executing == Deciding \ {"activate"}

\* Handler h is at statement pc, concerned with request r.
On(h, r, pc) == job[h].req = r /\ job[h].pc = pc

\* Where a handler can be after a step: the same place as before, or what its statement
\* leads to.
Moved(g) ==
    \/ job'[g] = job[g]
    \/ job'[g].pc \in {"idle", "ttl", "insert", "mail", "ladderRead", "ladderWrite"}
    \/ \E r \in ReqIds : request[r].state = "pending" /\ On(g, r, "activate")'
    \/ \E r \in ReqIds : request[r].state = "pending" /\ On(g, r, "audit")'
    \/ \E r \in ReqIds : On(g, r, "activate") /\ On(g, r, "audit")'
    \/ \E r \in ReqIds : On(g, r, "audit") /\ On(g, r, "guard")'
    \/ \E r \in ReqIds : On(g, r, "guard") /\ On(g, r, "block")'
    \/ \E r \in ReqIds : /\ On(g, r, "guard") /\ On(g, r, "lookup")'
                         /\ faults' = faults => AssertSafe(request[r].target, protected)
    \/ \E r \in ReqIds : On(g, r, "lookup") /\ On(g, r, "dispatch")'

LEMMA StepMoves ==
    ASSUME IInv, NEW h \in Handlers, Step(h), NEW g \in Handlers
    PROVE  Moved(g)
<1>1. CASE BanCreateTTL(h)
  BY <1>1, BecomeType DEF IInv, TypeOK, Become, BanCreateTTL, JobAt, Moved
<1>2. CASE BanCreateInsert(h)
  BY <1>2 DEF IInv, TypeOK, Become, Finish, Idle, BanCreateInsert, JobAt, Moved
<1>3. CASE GenTokensAndSend(h) \/ SafetyBlock(h) \/ LadderWrite(h)
  BY <1>3 DEF IInv, TypeOK, Become, Finish, Idle, GenTokensAndSend, SafetyBlock, LadderWrite,
              JobAt, Moved
<1>4. CASE BanApproveUpdate(h)
  <2>1. job[h].req \in ReqIds /\ job[h].pc = "activate"
    BY <1>4 DEF IInv, JobInv, JobOK, BanApproveUpdate, At
  <2>2. QED
    BY <1>4, <2>1 DEF IInv, TypeOK, Become, Goto, Finish, Idle, BanApproveUpdate, JobAt,
                      Moved, On
<1>5. CASE AuditApproval(h)
  <2>1. job[h].req \in ReqIds /\ job[h].pc = "audit"
    BY <1>5 DEF IInv, JobInv, JobOK, AuditApproval, At
  <2>2. QED
    BY <1>5, <2>1 DEF IInv, TypeOK, Become, Goto, AuditApproval, JobAt, Moved, On
<1>6. CASE SafetyCheck(h)
  <2>1. job[h].req \in ReqIds /\ job[h].pc = "guard"
    BY <1>6 DEF IInv, JobInv, JobOK, SafetyCheck, At
  <2>2. PICK entries \in {protected, {}} :
            /\ \/ entries = protected /\ Succeeds
               \/ entries = {} /\ Fails
            /\ Goto(h, IF AssertSafe(request[job[h].req].target, entries)
                       THEN "lookup" ELSE "block")
    BY <1>6 DEF SafetyCheck
  <2>3. faults' = faults => entries = protected
    BY <2>2, BoundAssumption DEF IInv, TypeOK, Fails
  <2>4. CASE AssertSafe(request[job[h].req].target, entries)
    BY <2>1, <2>2, <2>3, <2>4 DEF IInv, TypeOK, Become, Goto, JobAt, Moved, On
  <2>5. CASE ~AssertSafe(request[job[h].req].target, entries)
    BY <2>1, <2>2, <2>5 DEF IInv, TypeOK, Become, Goto, JobAt, Moved, On
  <2>6. QED
    BY <2>4, <2>5
<1>7. CASE DispatchLookup(h)
  <2>1. job[h].req \in ReqIds /\ job[h].pc = "lookup"
    BY <1>7 DEF IInv, JobInv, JobOK, DispatchLookup, At
  <2>2. QED
    BY <1>7, <2>1 DEF IInv, TypeOK, Become, Goto, DispatchLookup, JobAt, Moved, On
<1>8. CASE DispatchInsert(h) \/ LadderRead(h)
  BY <1>8 DEF IInv, TypeOK, Become, Goto, Finish, Idle, DispatchInsert, LadderRead, JobAt, Moved
<1>9. QED
  BY <1>1, <1>2, <1>3, <1>4, <1>5, <1>6, <1>7, <1>8 DEF Step

LEMMA NextMoves ==
    ASSUME IInv, [Next]_vars, NEW g \in Handlers
    PROVE  Moved(g)
<1>1. ASSUME NEW h \in Handlers, Arrive(h) PROVE Moved(g)
  BY <1>1 DEF IInv, TypeOK, Arrive, BanCreate, BanApprove, ApproveDoApprove, Redeem, Become,
              JobAt, Moved, On
<1>2. CASE Crash
  BY <1>2 DEF Crash, Idle, JobAt, Moved
<1>3. CASE job' = job
  BY <1>3 DEF Moved
<1>4. QED
  BY <1>1, <1>2, <1>3, StepMoves
     DEF Next, vars, BanReject, ApproveDoReject, TokenExpires, ObserveWindowEnds, EditProtected,
         UserToggleActive, UserChangeRole, UpdateUser

-----------------------------------------------------------------------------
\* How a step changes the state of request r, and who is behind it.
StateMoved(r) ==
    \/ request'[r].state = request[r].state
    \/ request[r].state = "absent" /\ request'[r].state = "pending"
    \/ request'[r].state = "rejected"
    \/ /\ request'[r].state = "active"
       /\ \E h \in Handlers : /\ On(h, r, "audit")'
                              /\ request[r].state = "pending" \/ On(h, r, "activate")
    \/ request'[r].state = "safety_blocked" /\ \E h \in Handlers : On(h, r, "block")

LEMMA UpdateStates ==
    ASSUME TypeOK, NEW q \in ReqIds, NEW state, NEW a, UpdateRequest(q, state, a), NEW r \in ReqIds
    PROVE  request'[r].state = IF r = q THEN state ELSE request[r].state
  BY DEF TypeOK, UpdateRequest

LEMMA StepStates ==
    ASSUME IInv, NEW h \in Handlers, Step(h), NEW r \in ReqIds
    PROVE  StateMoved(r)
<1>1. CASE request' = request
  BY <1>1 DEF StateMoved
<1>2. CASE BanCreateInsert(h) /\ request' # request
  <2>1. PICK q \in ReqIds, row \in [state: {"pending"}, target: Targets \cup {NoTarget},
               requester: Users \cup {NoUser}, approver: {NoUser}, ttl: Levels] :
            request[q].state = "absent" /\ request' = [request EXCEPT ![q] = row]
    BY <1>2 DEF IInv, TypeOK, Job, BanCreateInsert
  <2>2. QED
    BY <2>1 DEF IInv, TypeOK, StateMoved
<1>3. CASE BanApproveUpdate(h) /\ request' # request
  <2>1. /\ On(h, job[h].req, "activate") /\ job[h].req \in ReqIds
        /\ UpdateRequest(job[h].req, "active", job[h].user) /\ Goto(h, "audit")
    BY <1>3 DEF IInv, JobInv, JobOK, BanApproveUpdate, At, On
  <2>2. job'[h].req = job[h].req /\ job'[h].pc = "audit"
    BY <2>1, GotoType DEF IInv, PCs
  <2>3. QED
    BY <2>1, <2>2, UpdateStates DEF IInv, StateMoved, On
<1>4. CASE SafetyBlock(h) /\ request' # request
  <2>1. /\ On(h, job[h].req, "block") /\ job[h].req \in ReqIds
        /\ UpdateRequest(job[h].req, "safety_blocked", request[job[h].req].approver)
    BY <1>4 DEF IInv, JobInv, JobOK, SafetyBlock, At, On
  <2>2. QED
    BY <2>1, UpdateStates DEF IInv, StateMoved
<1>5. QED
  BY <1>1, <1>2, <1>3, <1>4
     DEF Step, BanCreateTTL, GenTokensAndSend, AuditApproval, SafetyCheck, DispatchLookup,
         DispatchInsert, LadderRead, LadderWrite

LEMMA NextStates ==
    ASSUME IInv, [Next]_vars, NEW r \in ReqIds
    PROVE  StateMoved(r)
<1>1. CASE request' = request
  BY <1>1 DEF StateMoved
<1>2. ASSUME NEW h \in Handlers, NEW q \in ReqIds, ApproveDoApprove(h, q)
      PROVE  StateMoved(r)
  <2>1. /\ request[q].state = "pending" /\ UpdateRequest(q, "active", token[q].approver)
        /\ On(h, q, "audit")'
    BY <1>2 DEF IInv, TypeOK, ApproveDoApprove, Redeem, Become, JobAt, On
  <2>2. QED
    BY <2>1, UpdateStates DEF IInv, StateMoved
<1>3. ASSUME NEW u \in Users, NEW q \in ReqIds, BanReject(u, q)
      PROVE  StateMoved(r)
  BY <1>3, UpdateStates DEF IInv, BanReject, StateMoved
<1>4. ASSUME NEW q \in ReqIds, ApproveDoReject(q)
      PROVE  StateMoved(r)
  BY <1>4, UpdateStates DEF IInv, ApproveDoReject, StateMoved
<1>5. QED
  BY <1>1, <1>2, <1>3, <1>4, StepStates
     DEF Next, vars, Arrive, BanCreate, BanApprove, TokenExpires, ObserveWindowEnds,
         EditProtected, UserToggleActive,
         UserChangeRole, UpdateUser, Crash

-----------------------------------------------------------------------------
\* A step inserts no dispatch, or one for the request of a handler at its INSERT.
LEMMA NextDispatches ==
    ASSUME IInv, [Next]_vars
    PROVE  \/ dispatch' = dispatch
           \/ \E h \in Handlers, d \in Dispatch :
                 On(h, d.req, "dispatch") /\ dispatch' = Append(dispatch, d)
<1>1. ASSUME NEW h \in Handlers, DispatchInsert(h), dispatch' # dispatch
      PROVE  \E d \in Dispatch : On(h, d.req, "dispatch") /\ dispatch' = Append(dispatch, d)
  <2>1. PICK r \in ReqIds : r = job[h].req
    BY <1>1 DEF IInv, JobInv, JobOK, DispatchInsert, At
  <2> DEFINE d == [req |-> r, target |-> request[r].target, ttl |-> request[r].ttl,
                   state |-> "pending"]
  <2>2. d \in Dispatch
    BY <1>1, <2>1 DEF IInv, TypeOK, JobInv, JobOK, Approved, RequestInv, Request, Dispatch,
                      DispatchInsert, At
  <2>3. On(h, d.req, "dispatch") /\ dispatch' = Append(dispatch, d)
    BY <1>1, <2>1 DEF DispatchInsert, At, On
  <2>4. QED
    BY <2>2, <2>3
<1>2. QED
  BY <1>1
     DEF Next, vars, Arrive, Step, BanCreate, BanApprove, ApproveDoApprove, Redeem, BanCreateTTL,
         BanCreateInsert, GenTokensAndSend, BanApproveUpdate, AuditApproval, SafetyCheck,
         SafetyBlock, DispatchLookup, LadderRead, LadderWrite, BanReject, ApproveDoReject,
         TokenExpires, ObserveWindowEnds, EditProtected, UserToggleActive,
         UserChangeRole, UpdateUser, Crash

\* What that does to the dispatches of one request.
LEMMA DispatchesMove ==
    ASSUME IInv, [Next]_vars, NEW r \in ReqIds
    PROVE  /\ DispatchesOf(r) \subseteq DispatchesOf(r)'
           /\ (\A h \in Handlers : ~On(h, r, "dispatch")) => DispatchesOf(r)' = DispatchesOf(r)
<1>1. CASE dispatch' = dispatch
  BY <1>1 DEF DispatchesOf
<1>2. ASSUME NEW h \in Handlers, NEW d \in Dispatch,
             On(h, d.req, "dispatch"), dispatch' = Append(dispatch, d)
      PROVE  /\ DispatchesOf(r) \subseteq DispatchesOf(r)'
             /\ ~On(h, r, "dispatch") => DispatchesOf(r)' = DispatchesOf(r)
  <2>1. dispatch \in Seq(Dispatch) /\ Len(dispatch) \in Nat
    BY DEF IInv, TypeOK
  <2>2. /\ DOMAIN dispatch' = DOMAIN dispatch \cup {Len(dispatch) + 1}
        /\ \A i \in DOMAIN dispatch : dispatch'[i] = dispatch[i]
        /\ dispatch'[Len(dispatch) + 1] = d
    BY <1>2, <2>1
  <2>3. ~On(h, r, "dispatch") => d.req # r
    BY <1>2 DEF On
  <2>4. QED
    BY <2>2, <2>3 DEF DispatchesOf
<1>3. QED
  BY <1>1, <1>2, NextDispatches

-----------------------------------------------------------------------------
\* A submitted request keeps its target.
LEMMA TargetStays ==
    ASSUME IInv, [Next]_vars, NEW r \in ReqIds, request[r].state # "absent"
    PROVE  request'[r].target = request[r].target
<1>1. CASE request' = request
  BY <1>1
<1>2. ASSUME NEW q \in ReqIds, NEW state, NEW a, UpdateRequest(q, state, a)
      PROVE  request'[r].target = request[r].target
  BY <1>2 DEF IInv, TypeOK, UpdateRequest
<1>3. ASSUME NEW h \in Handlers, BanCreateInsert(h)
      PROVE  request'[r].target = request[r].target
  BY <1>3 DEF IInv, TypeOK, BanCreateInsert
<1>4. ASSUME NEW h \in Handlers, BanApproveUpdate(h)
      PROVE  request'[r].target = request[r].target
  <2>1. job[h].req \in ReqIds
    BY <1>4 DEF IInv, JobInv, JobOK, BanApproveUpdate, At
  <2>2. QED
    BY <1>1, <1>2, <1>4, <2>1 DEF BanApproveUpdate
<1>5. ASSUME NEW h \in Handlers, SafetyBlock(h)
      PROVE  request'[r].target = request[r].target
  <2>1. job[h].req \in ReqIds
    BY <1>5 DEF IInv, JobInv, JobOK, SafetyBlock, At
  <2>2. QED
    BY <1>1, <1>2, <1>5, <2>1 DEF SafetyBlock
<1>6. QED
  BY <1>1, <1>2, <1>3, <1>4, <1>5
     DEF Next, vars, Arrive, Step, BanCreate, BanApprove, ApproveDoApprove, BanCreateTTL,
         GenTokensAndSend, AuditApproval, SafetyCheck, DispatchLookup, DispatchInsert,
         LadderRead, LadderWrite, BanReject, ApproveDoReject, TokenExpires,
         ObserveWindowEnds, EditProtected, UserToggleActive,
         UserChangeRole, UpdateUser, Crash

LEMMA RejectionStep ==
    ASSUME IInv, [Next]_vars, NEW r \in ReqIds, Settled(r)
    PROVE  Settled(r)' /\ DispatchesOf(r)' = DispatchesOf(r)
<1>1. \A h \in Handlers : job[h].req = r => job[h].pc \notin Deciding
  BY DEF Settled, InFlight, Deciding
<1>2. request[r].state = "rejected"
  BY DEF Settled
<1>3. request'[r].state = "rejected"
  BY <1>1, <1>2, NextStates DEF StateMoved, On, Deciding
<1>4. \A h \in Handlers : job'[h].req = r => job'[h].pc \notin Deciding
  BY <1>1, <1>2, NextMoves DEF Moved, On, Deciding
<1>5. Settled(r)'
  BY <1>3, <1>4 DEF Settled, InFlight, Deciding
<1>6. DispatchesOf(r)' = DispatchesOf(r)
  BY <1>1, DispatchesMove DEF On, Deciding
<1>7. QED
  BY <1>5, <1>6

LEMMA SafeIsHarmless ==
    ASSUME NEW t, NEW entries, AssertSafe(t, entries)
    PROVE  Harmless(t, entries)
  BY DEF AssertSafe, Harmless

LEMMA VetoStep ==
    ASSUME IInv, [Next]_vars, NEW r \in ReqIds, Vetoed(r), UNCHANGED <<protected, faults>>
    PROVE  Vetoed(r)'
<1>1. /\ request[r].state # "absent" /\ ~Harmless(request[r].target, protected)
      /\ DispatchesOf(r) = {}
      /\ \A h \in Handlers : job[h].req = r => job[h].pc \notin Checked
  BY DEF Vetoed, InFlight, Checked
<1>2. request'[r].state # "absent"
  BY <1>1, NextStates DEF StateMoved
<1>3. ~Harmless(request[r].target, protected)'
  BY <1>1, TargetStays DEF Harmless
<1>4. \A h \in Handlers : job'[h].req = r => job'[h].pc \notin Checked
  BY <1>1, NextMoves, SafeIsHarmless DEF Moved, On, Checked
<1>5. DispatchesOf(r)' = {}
  BY <1>1, DispatchesMove DEF On, Checked
<1>6. QED
  BY <1>2, <1>3, <1>4, <1>5 DEF Vetoed, InFlight, Checked

-----------------------------------------------------------------------------
(* An approval under way stays under way *)

\* Without failures, the handler of an approval goes on, or has reached its end.
LEMMA Forward ==
    ASSUME IInv, NEW h \in Handlers, Step(h), faults' = 0, NEW r \in ReqIds,
           job[h].req = r, job[h].pc \in Executing
    PROVE  \/ job'[h].req = r /\ job'[h].pc \in Executing
           \/ request'[r].state = "safety_blocked"
           \/ Dispatched(r)'
<1>1. ~Fails
  BY BoundAssumption DEF IInv, TypeOK, Fails
<1>2. CASE AuditApproval(h)
  BY <1>2, GotoType DEF IInv, AuditApproval, PCs, Executing, Deciding
<1>3. CASE SafetyCheck(h)
  <2>1. PICK pc \in {"lookup", "block"} : Goto(h, pc)
    BY <1>3 DEF SafetyCheck
  <2>2. QED
    BY <2>1, GotoType DEF IInv, PCs, Executing, Deciding
<1>4. CASE SafetyBlock(h)
  BY <1>1, <1>4, UpdateStates DEF IInv, SafetyBlock
<1>5. CASE DispatchLookup(h)
  <2>1. CASE DispatchesOf(r) # {}
    BY <1>5, <2>1 DEF DispatchLookup, Dispatched, DispatchesOf
  <2>2. CASE Goto(h, "dispatch")
    BY <2>2, GotoType DEF IInv, PCs, Executing, Deciding
  <2>3. QED
    BY <1>1, <1>5, <2>1, <2>2 DEF DispatchLookup
<1>6. CASE DispatchInsert(h)
  <2> DEFINE d == [req |-> r, target |-> request[r].target, ttl |-> request[r].ttl,
                   state |-> "pending"]
  <2>1. dispatch' = Append(dispatch, d) /\ dispatch \in Seq(Dispatch)
    BY <1>1, <1>6 DEF IInv, TypeOK, DispatchInsert
  <2>2. Len(dispatch) + 1 \in DOMAIN dispatch' /\ dispatch'[Len(dispatch) + 1] = d
    BY <2>1
  <2>3. QED
    BY <2>2 DEF Dispatched, DispatchesOf
<1>7. QED
  BY <1>2, <1>3, <1>4, <1>5, <1>6
     DEF Step, BanCreateTTL, BanCreateInsert, GenTokensAndSend, BanApproveUpdate, LadderRead,
         LadderWrite, At, Executing, Deciding

LEMMA BackedStep ==
    ASSUME IInv, ActiveIsBacked, [Next]_vars
    PROVE  ActiveIsBacked'
<1> SUFFICES ASSUME faults' = 0, crashes' = 0, NEW r \in ReqIds, request'[r].state = "active"
             PROVE  Dispatched(r)' \/ \E g \in Handlers : job'[g].req = r /\ job'[g].pc \in Executing
  BY DEF ActiveIsBacked, InFlight, Executing, Deciding
<1>1. faults = 0 /\ crashes = 0 /\ ~Crash
  <2>1. UNCHANGED faults \/ Fails
    BY DEF Next, vars, Arrive, Step, Succeeds, BanCreate, BanApprove, ApproveDoApprove, Redeem,
           BanCreateTTL, BanCreateInsert, GenTokensAndSend, BanApproveUpdate, AuditApproval,
           SafetyCheck, SafetyBlock, DispatchLookup, DispatchInsert, LadderRead, LadderWrite,
           BanReject, ApproveDoReject, TokenExpires, ObserveWindowEnds, EditProtected,
           UserToggleActive,
         UserChangeRole, UpdateUser, Crash
  <2>2. UNCHANGED crashes \/ Crash
    BY DEF Next, vars, Arrive, Step, BanCreate, BanApprove, ApproveDoApprove, Redeem,
           BanCreateTTL, BanCreateInsert, GenTokensAndSend, BanApproveUpdate, AuditApproval,
           SafetyCheck, SafetyBlock, DispatchLookup, DispatchInsert, LadderRead, LadderWrite,
           BanReject, ApproveDoReject, TokenExpires, ObserveWindowEnds, EditProtected,
           UserToggleActive, UserChangeRole, UpdateUser
  <2>3. faults \in Nat /\ crashes \in Nat
    BY BoundAssumption DEF IInv, TypeOK
  <2>4. ~Fails /\ ~Crash
    BY <2>3 DEF Fails, Crash
  <2>5. QED
    BY <2>1, <2>2, <2>4
<1>2. CASE request[r].state # "active"
  <2>1. \E h \in Handlers : On(h, r, "audit")'
    BY <1>2, NextStates DEF StateMoved
  <2>2. QED
    BY <2>1 DEF On, Executing, Deciding
<1>3. CASE Dispatched(r)
  BY <1>3, DispatchesMove DEF Dispatched
<1>4. ASSUME NEW g \in Handlers, job[g].req = r, job[g].pc \in Executing
      PROVE  Dispatched(r)' \/ \E f \in Handlers : job'[f].req = r /\ job'[f].pc \in Executing
  <2>1. CASE job'[g] = job[g]
    BY <1>4, <2>1
  <2>2. CASE Step(g)
    BY <1>4, <2>2, Forward
  <2>3. job'[g] = job[g] \/ Step(g)
    <3>1. ASSUME NEW h \in Handlers, Step(h), h # g
          PROVE  job'[g] = job[g]
      BY <3>1 DEF Step, BanCreateTTL, BanCreateInsert, GenTokensAndSend, BanApproveUpdate,
                  AuditApproval, SafetyCheck, SafetyBlock, DispatchLookup, DispatchInsert,
                  LadderRead, LadderWrite, Goto, Finish, Become, IInv, TypeOK
    <3>2. ASSUME NEW h \in Handlers, Arrive(h)
          PROVE  job'[g] = job[g]
      BY <1>4, <3>2 DEF Arrive, BanCreate, BanApprove, ApproveDoApprove, At, Become, IInv,
                        TypeOK, Executing, Deciding
    <3>3. QED
      BY <1>1, <3>1, <3>2
         DEF Next, vars, BanReject, ApproveDoReject, TokenExpires, ObserveWindowEnds,
             EditProtected, UserToggleActive,
         UserChangeRole, UpdateUser
  <2>4. QED
    BY <2>1, <2>2, <2>3
<1>5. QED
  BY <1>1, <1>2, <1>3, <1>4 DEF ActiveIsBacked, InFlight, Executing, Deciding

-----------------------------------------------------------------------------
(* The theorems *)

\* A rejection that no approver is in the middle of overruling is final, and no
\* further dispatch is made (banReject, and the checks of banApprove and approveDo).
THEOREM RejectionHolds == Spec => RejectionSticks
<1>1. IInv /\ [Next]_vars =>
          [\A r \in ReqIds : Settled(r) =>
              Settled(r)' /\ DispatchesOf(r)' = DispatchesOf(r)]_vars
  BY RejectionStep
<1>2. QED
  BY <1>1, Invariance, PTL DEF Spec, RejectionSticks

\* The protected set as it is at approval decides: a request covered by a standing
\* entry gets no dispatch while reads succeed (CreateDispatch's guard).
THEOREM VetoTheorem == Spec => VetoHolds
<1>1. IInv /\ [Next]_vars =>
          [\A r \in ReqIds : Vetoed(r) /\ UNCHANGED <<protected, faults>> => Vetoed(r)']_vars
  BY VetoStep
<1>2. QED
  BY <1>1, Invariance, PTL DEF Spec, VetoHolds

\* Without failures and crashes an active request has a dispatch, or a handler on its
\* way to one (the statements after an approval).
THEOREM BackedHolds == Spec => []ActiveIsBacked
<1>1. Init => ActiveIsBacked
  BY DEF Init, NoRequest, ActiveIsBacked
<1>2. IInv /\ ActiveIsBacked /\ [Next]_vars => ActiveIsBacked'
  BY BackedStep
<1>3. QED
  BY <1>1, <1>2, Invariance, PTL DEF Spec

-----------------------------------------------------------------------------
(* BanApproval implements GovernedBan: each statement of a handler is a submission,
   an approval, an order, or nothing the abstract ban sees. *)

SamePeople ==
    \A r \in ReqIds : /\ request'[r].requester = request[r].requester
                      /\ request'[r].approver = request[r].approver

\* A step that leaves requesters, approvers and dispatches alone is not seen.
LEMMA Unseen ==
    ASSUME SamePeople, dispatch' = dispatch
    PROVE  UNCHANGED Governed!vars
  BY DEF SamePeople, Governed!vars

\* An UPDATE that keeps the approver, such as a rejection or a veto.
LEMMA UpdateUnseen ==
    ASSUME TypeOK, NEW r \in ReqIds, NEW state, UpdateRequest(r, state, request[r].approver)
    PROVE  SamePeople
<1>1. /\ \A q \in ReqIds \ {r} : request'[q] = request[q]
      /\ request'[r].requester = request[r].requester
      /\ request'[r].approver = request[r].approver
  BY DEF TypeOK, UpdateRequest
<1>2. QED
  BY <1>1 DEF SamePeople

\* An UPDATE that records an approver is an approval.
LEMMA UpdateApproves ==
    ASSUME TypeOK, RequestInv, NEW r \in ReqIds, NEW u \in Users, NEW state,
           request[r].state # "absent", request[r].requester # u,
           UpdateRequest(r, state, u), dispatch' = dispatch
    PROVE  Governed!Approve(r, u)
<1>1. request[r].requester \in Users
  BY DEF RequestInv
<1>2. /\ \A q \in ReqIds \ {r} : request'[q] = request[q]
      /\ request'[r].requester = request[r].requester
      /\ request'[r].approver = u
  BY DEF TypeOK, UpdateRequest
<1>3. [q \in ReqIds |-> request'[q].approver] =
          [[q \in ReqIds |-> request[q].approver] EXCEPT ![r] = u]
  BY <1>2
<1>4. [q \in ReqIds |-> request'[q].requester] = [q \in ReqIds |-> request[q].requester]
  BY <1>2
<1>5. QED
  BY <1>1, <1>3, <1>4, NoneAssumption DEF Governed!Approve

LEMMA InsertSubmits ==
    ASSUME IInv, NEW h \in Handlers, BanCreateInsert(h)
    PROVE  Governed!Next \/ UNCHANGED Governed!vars
<1> PICK u \in Users : u = job[h].user
  BY DEF IInv, JobInv, JobOK, BanCreateInsert, At
<1>1. dispatch' = dispatch
  BY DEF IInv, JobInv, JobOK, BanCreateInsert, At
<1>2. ASSUME NEW r \in ReqIds, request[r].state = "absent",
             request' = [request EXCEPT ![r] =
                [state |-> "pending", target |-> job[h].target, requester |-> u,
                 approver |-> NoUser, ttl |-> job[h].ttl]]
      PROVE  Governed!Submit(r, u)
  <2>1. request[r].requester = NoUser /\ request[r].approver = NoUser
    BY <1>2 DEF IInv, RequestInv, NoRequest
  <2>2. /\ \A q \in ReqIds \ {r} : request'[q] = request[q]
        /\ request'[r].requester = u /\ request'[r].approver = NoUser
    BY <1>2 DEF IInv, TypeOK
  <2>3. [q \in ReqIds |-> request'[q].requester] =
            [[q \in ReqIds |-> request[q].requester] EXCEPT ![r] = u]
    BY <2>2
  <2>4. [q \in ReqIds |-> request'[q].approver] = [q \in ReqIds |-> request[q].approver]
    BY <2>1, <2>2
  <2>5. QED
    BY <1>1, <2>1, <2>3, <2>4 DEF Governed!Submit
<1>3. CASE UNCHANGED request
  BY <1>1, <1>3, Unseen DEF SamePeople
<1>4. ASSUME NEW r \in ReqIds, Governed!Submit(r, u)
      PROVE  Governed!Next
  BY <1>1, <1>4 DEF Governed!Next
<1>5. CASE UNCHANGED request
  BY <1>3, <1>5
<1>6. CASE ~UNCHANGED request
  <2>1. PICK r \in ReqIds :
            /\ request[r].state = "absent"
            /\ request' = [request EXCEPT ![r] =
                  [state |-> "pending", target |-> job[h].target, requester |-> u,
                   approver |-> NoUser, ttl |-> job[h].ttl]]
    BY <1>6 DEF BanCreateInsert
  <2>2. QED
    BY <1>2, <1>4, <2>1
<1>7. QED
  BY <1>5, <1>6

LEMMA UpdateRefines ==
    ASSUME IInv, NEW h \in Handlers, BanApproveUpdate(h)
    PROVE  Governed!Next \/ UNCHANGED Governed!vars
<1> PICK r \in ReqIds : r = job[h].req
  BY DEF IInv, JobInv, JobOK, BanApproveUpdate, At
<1>1. /\ job[h].user \in Users /\ request[r].state # "absent"
      /\ request[r].requester # job[h].user /\ dispatch' = dispatch
  BY DEF IInv, TypeOK, JobInv, JobOK, BanApproveUpdate, At
<1>2. CASE UpdateRequest(r, "active", job[h].user)
  BY <1>1, <1>2, UpdateApproves DEF IInv, Governed!Next
<1>3. CASE UNCHANGED request
  BY <1>1, <1>3, Unseen DEF SamePeople
<1>4. QED
  BY <1>2, <1>3 DEF BanApproveUpdate

LEMMA RedeemApproves ==
    ASSUME IInv, NEW h \in Handlers, NEW r \in ReqIds, ApproveDoApprove(h, r)
    PROVE  Governed!Next
<1>1. /\ token[r].approver \in Users /\ request[r].state # "absent"
      /\ request[r].requester # token[r].approver /\ dispatch' = dispatch
      /\ UpdateRequest(r, "active", token[r].approver)
  BY DEF IInv, TypeOK, TokenInv, ApproveDoApprove, Redeem
<1>2. QED
  BY <1>1, UpdateApproves DEF IInv, Governed!Next

LEMMA DispatchOrders ==
    ASSUME IInv, NEW h \in Handlers, DispatchInsert(h)
    PROVE  Governed!Next \/ UNCHANGED Governed!vars
<1> PICK r \in ReqIds : r = job[h].req
  BY DEF IInv, JobInv, JobOK, DispatchInsert, At
<1>1. request[r].approver # NoUser /\ request' = request /\ dispatch \in Seq(Dispatch)
  BY DEF IInv, TypeOK, JobInv, JobOK, Approved, DispatchInsert, At
<1> DEFINE d == [req |-> r, target |-> request[r].target, ttl |-> request[r].ttl,
                 state |-> "pending"]
<1>2. CASE dispatch' = Append(dispatch, d)
  <2>1. {dispatch'[i].req : i \in DOMAIN dispatch'} =
            {dispatch[i].req : i \in DOMAIN dispatch} \cup {r}
    <3>1. /\ DOMAIN dispatch' = 1..(Len(dispatch) + 1) /\ DOMAIN dispatch = 1..Len(dispatch)
          /\ \A i \in DOMAIN dispatch : dispatch'[i] = dispatch[i]
          /\ dispatch'[Len(dispatch) + 1] = d /\ Len(dispatch) \in Nat
      BY <1>1, <1>2
    <3>2. DOMAIN dispatch' = DOMAIN dispatch \cup {Len(dispatch) + 1}
      BY <3>1
    <3>3. dispatch'[Len(dispatch) + 1].req = r
      BY <3>1
    <3>4. QED
      BY <3>1, <3>2, <3>3
  <2>2. Governed!Order(r)
    BY <1>1, <2>1 DEF Governed!Order
  <2>3. QED
    BY <2>2 DEF Governed!Next
<1>3. CASE UNCHANGED dispatch
  BY <1>1, <1>3, Unseen DEF SamePeople
<1>4. QED
  BY <1>2, <1>3 DEF DispatchInsert

LEMMA BlockUnseen ==
    ASSUME IInv, NEW h \in Handlers, SafetyBlock(h)
    PROVE  UNCHANGED Governed!vars
<1>1. job[h].req \in ReqIds /\ dispatch' = dispatch
  BY DEF IInv, JobInv, JobOK, SafetyBlock, At
<1>2. CASE UNCHANGED request
  BY <1>1, <1>2, Unseen DEF SamePeople
<1>3. CASE UpdateRequest(job[h].req, "safety_blocked", request[job[h].req].approver)
  BY <1>1, <1>3, UpdateUnseen, Unseen DEF IInv
<1>4. QED
  BY <1>2, <1>3 DEF SafetyBlock

\* Every step is an abstract step or a stutter.
LEMMA StepRefines ==
    ASSUME IInv, [Next]_vars
    PROVE  [Governed!Next]_(Governed!vars)
<1>1. CASE request' = request /\ dispatch' = dispatch
  BY <1>1, Unseen DEF SamePeople
<1>2. ASSUME NEW h \in Handlers, Arrive(h) \/ Step(h)
      PROVE  [Governed!Next]_(Governed!vars)
  <2>1. CASE Arrive(h)
    BY <1>1, <2>1, RedeemApproves DEF Arrive, BanCreate, BanApprove
  <2>2. CASE BanCreateInsert(h) \/ BanApproveUpdate(h) \/ SafetyBlock(h) \/ DispatchInsert(h)
    BY <2>2, InsertSubmits, UpdateRefines, BlockUnseen, DispatchOrders
  <2>3. CASE \/ BanCreateTTL(h) \/ GenTokensAndSend(h) \/ AuditApproval(h) \/ SafetyCheck(h)
             \/ DispatchLookup(h) \/ LadderRead(h) \/ LadderWrite(h)
    BY <1>1, <2>3 DEF BanCreateTTL, GenTokensAndSend, AuditApproval, SafetyCheck,
                      DispatchLookup, LadderRead, LadderWrite
  <2>4. QED
    BY <1>2, <2>1, <2>2, <2>3 DEF Step
<1>3. ASSUME NEW u \in Users, NEW r \in ReqIds, BanReject(u, r)
      PROVE  UNCHANGED Governed!vars
  BY <1>3, UpdateUnseen, Unseen DEF IInv, BanReject
<1>4. ASSUME NEW r \in ReqIds, ApproveDoReject(r)
      PROVE  UNCHANGED Governed!vars
  BY <1>4, UpdateUnseen, Unseen DEF IInv, ApproveDoReject, Redeem
<1>5. CASE \/ \E r \in ReqIds : TokenExpires(r)
           \/ \E t \in Targets : ObserveWindowEnds(t) \/ EditProtected(t)
           \/ \E actor, u \in Users :
                 \/ UserToggleActive(actor, u)
                 \/ \E role \in NewRoles : UserChangeRole(actor, u, role)
           \/ Crash
  BY <1>1, <1>5 DEF TokenExpires, ObserveWindowEnds, EditProtected, UserToggleActive,
                    UserChangeRole, UpdateUser, Crash
<1>6. CASE UNCHANGED vars
  BY <1>1, <1>6 DEF vars
<1>7. QED
  BY <1>2, <1>3, <1>4, <1>5, <1>6 DEF Next

\* The approval workflow keeps the promise of GovernedBan: one requester for ever,
\* approvals only by others, orders only after an approval and never withdrawn,
\* whatever races, failed statements and crashes the handlers go through.
THEOREM Refinement == Spec => RefinesGovernedBan
<1>1. Init => Governed!Init
  BY DEF Init, NoRequest, Governed!Init
<1>2. IInv /\ [Next]_vars => [Governed!Next]_(Governed!vars)
  BY StepRefines
<1>3. QED
  BY <1>1, <1>2, Invariance, PTL DEF Spec, RefinesGovernedBan, Governed!Spec
=============================================================================
