-------------------------- MODULE ApprovalsProofs --------------------------
(* Theorems about Approvals, for every number of calls, approval ids and      *)
(* restarts, and both postures: no answer is counted twice, and the approval  *)
(* path implements ApprovalContract.                                          *)
EXTENDS Approvals, TLAPS

\* An approval id names one request: in the queue, on any browser, however old
\* the list it shows.
IdsName ==
  /\ \A q, r \in Requests : (key[q] = key[r] /\ key[q] # NoKey) => q = r
  /\ \A k \in Keys : pending[k] # NoRequest => key[pending[k]] = k
  /\ \A e \in screen : key[e.call] = e.id

\* A request is parked after it was asked, and once.
ParkedOnce ==
  \A r \in Requests :
    /\ (conn[r] # "none" \/ key[r] # NoKey) => resolution[r] # "idle"
    /\ conn[r] \in {"none", "sent"} => key[r] = NoKey /\ waiter[r] = "none"

\* What the futures, and then the responses, say was signed.
AnswersSigned ==
  /\ \A s \in signed : future[s.call] = s.answer
  /\ \A r \in Requests :
       /\ future[r] # "unset" => [call |-> r, answer |-> future[r]] \in signed
       /\ response[r] = "approved" => future[r] = "approved"
       /\ waiter[r] = "returned" => response[r] # "none"

ApprovalsInv == TypeOK /\ IdsName /\ ParkedOnce /\ AnswersSigned

LEMMA InitApprovals == Init => ApprovalsInv
  BY ApprovalsAssumption
  DEF Init, ApprovalsInv, TypeOK, IdsName, ParkedOnce, AnswersSigned, Waiters

\* Steps of the gateway touch neither the queue nor the signatures.
LEMMA GatewayStep ==
  ASSUME ApprovalsInv, NEW r \in Requests,
         Ask(r) \/ Deadline(r) \/ ChannelFails(r) \/ Answered(r)
  PROVE  ApprovalsInv'
<1>1. /\ UNCHANGED <<console, screen, signed, restarts>>
      /\ resolution' \in [Requests -> {"idle", "waiting", "approved", "denied"}]
      /\ conn' \in [Requests -> {"none", "sent", "held", "closed"}]
      /\ \A q \in Requests : resolution'[q] = "idle" => resolution[q] = "idle" /\ conn'[q] = conn[q]
      /\ \A q \in Requests : conn'[q] \in {"none", "sent"} => conn[q] \in {"none", "sent"}
  <2>1. CASE Ask(r)
    BY <2>1 DEF Ask, ApprovalsInv, TypeOK, ParkedOnce
  <2>2. CASE Deadline(r)
    BY <2>2 DEF Deadline, Return, OnError, ApprovalsInv, TypeOK
  <2>3. CASE ChannelFails(r)
    BY <2>3 DEF ChannelFails, Return, OnError, ApprovalsInv, TypeOK, ParkedOnce
  <2>4. CASE Answered(r)
    BY <2>4 DEF Answered, Return, ApprovalsInv, TypeOK, ParkedOnce, AnswersSigned
  <2> QED
    BY <2>1, <2>2, <2>3, <2>4
<1>2. TypeOK' /\ IdsName' /\ AnswersSigned'
  BY <1>1 DEF ApprovalsInv, TypeOK, IdsName, AnswersSigned, console
<1>3. ParkedOnce'
  BY <1>1 DEF ApprovalsInv, ParkedOnce, console
<1> QED
  BY <1>2, <1>3 DEF ApprovalsInv

\* The id a request is parked under is new.
LEMMA SubmitStep ==
  ASSUME ApprovalsInv, NEW r \in Requests, Submit(r)
  PROVE  ApprovalsInv'
<1>1. PICK k \in Minted(r) : /\ key' = [key EXCEPT ![r] = k]
                             /\ pending' = [pending EXCEPT ![k] = r]
  BY DEF Submit
<1>2. k \in Keys /\ k # NoKey /\ \A q \in Requests : key[q] # k
  BY ApprovalsAssumption DEF Minted
<1>3. key[r] = NoKey /\ resolution[r] # "idle"
  BY DEF Submit, ApprovalsInv, ParkedOnce
<1>4. TypeOK'
  BY <1>1, <1>2 DEF Submit, ApprovalsInv, TypeOK, Waiters
<1>5. IdsName'
  <2>1. \A q, s \in Requests : (key'[q] = key'[s] /\ key'[q] # NoKey) => q = s
    BY <1>1, <1>2 DEF ApprovalsInv, TypeOK, IdsName
  <2>2. \A j \in Keys : pending'[j] # NoRequest => key'[pending'[j]] = j
    <3> SUFFICES ASSUME NEW j \in Keys, pending'[j] # NoRequest
                 PROVE  key'[pending'[j]] = j
      OBVIOUS
    <3>1. CASE j = k
      BY <1>1, <1>2, <3>1 DEF ApprovalsInv, TypeOK
    <3>2. CASE j # k
      <4>1. pending'[j] = pending[j] /\ pending[j] \in Requests /\ key[pending[j]] = j
        BY <1>1, <1>2, <3>2 DEF ApprovalsInv, TypeOK, IdsName
      <4>2. pending[j] # r
        BY <4>1, <1>3, ApprovalsAssumption
      <4> QED
        BY <4>1, <4>2, <1>1 DEF ApprovalsInv, TypeOK
    <3> QED
      BY <3>1, <3>2
  <2>3. \A e \in screen' : key'[e.call] = e.id
    BY <1>1, <1>3, ApprovalsAssumption DEF Submit, ApprovalsInv, TypeOK, IdsName
  <2> QED
    BY <2>1, <2>2, <2>3 DEF IdsName
<1>6. ParkedOnce'
  BY <1>1, <1>3 DEF Submit, ApprovalsInv, TypeOK, ParkedOnce
<1>7. AnswersSigned'
  BY DEF Submit, ApprovalsInv, TypeOK, AnswersSigned
<1> QED
  BY <1>4, <1>5, <1>6, <1>7 DEF ApprovalsInv

\* A wait ends: its response says what its future says, or a denial.
LEMMA WaitStep ==
  ASSUME ApprovalsInv, NEW r \in Requests, WaitExpires(r) \/ WaitReturns(r)
  PROVE  ApprovalsInv'
<1>0. UNCHANGED <<resolution, conn, key, future, screen, signed, restarts>>
  BY DEF WaitExpires, WaitReturns
<1>1. conn[r] \notin {"none", "sent"}
  BY DEF WaitExpires, WaitReturns, ApprovalsInv, ParkedOnce
<1>2. TypeOK'
  BY <1>0 DEF WaitExpires, WaitReturns, ApprovalsInv, TypeOK, Waiters
<1>3. IdsName'
  <2>1. \A k \in Keys : pending'[k] # NoRequest => pending'[k] = pending[k]
    BY DEF WaitExpires, WaitReturns, ApprovalsInv, TypeOK
  <2> QED
    BY <1>0, <2>1 DEF ApprovalsInv, IdsName
<1>4. ParkedOnce'
  BY <1>0, <1>1 DEF WaitExpires, WaitReturns, ApprovalsInv, TypeOK, ParkedOnce
<1>5. AnswersSigned'
  BY <1>0 DEF WaitExpires, WaitReturns, ApprovalsInv, TypeOK, AnswersSigned
<1> QED
  BY <1>2, <1>3, <1>4, <1>5 DEF ApprovalsInv

\* The entry an approver resolves is the call the browser shows.
LEMMA ResolvesWhatIsShown ==
  ASSUME ApprovalsInv, NEW entry \in screen, Resolvable(entry.id)
  PROVE  entry.call \in Requests /\ pending[entry.id] = entry.call /\ future[entry.call] = "unset"
  BY ApprovalsAssumption DEF Resolvable, ApprovalsInv, TypeOK, IdsName

LEMMA ResolveStep ==
  ASSUME ApprovalsInv, NEW entry \in screen, NEW answer \in {"approved", "denied"},
         Resolve(entry, answer)
  PROVE  ApprovalsInv'
<1>1. /\ entry.call \in Requests /\ future[entry.call] = "unset"
      /\ future' = [future EXCEPT ![entry.call] = answer]
      /\ signed' = signed \cup {[call |-> entry.call, answer |-> answer]}
      /\ UNCHANGED <<resolution, conn, key, waiter, response, pending, screen, restarts>>
  BY ResolvesWhatIsShown DEF Resolve
<1>2. TypeOK'
  BY <1>1 DEF ApprovalsInv, TypeOK
<1>3. IdsName' /\ ParkedOnce'
  BY <1>1 DEF ApprovalsInv, IdsName, ParkedOnce
<1>4. AnswersSigned'
  <2>1. \A s \in signed : s.call # entry.call
    BY <1>1 DEF ApprovalsInv, TypeOK, AnswersSigned
  <2>2. \A s \in signed' : future'[s.call] = s.answer
    BY <1>1, <2>1 DEF ApprovalsInv, TypeOK, AnswersSigned
  <2>3. \A r \in Requests :
          /\ future'[r] # "unset" => [call |-> r, answer |-> future'[r]] \in signed'
          /\ response'[r] = "approved" => future'[r] = "approved"
          /\ waiter'[r] = "returned" => response'[r] # "none"
    BY <1>1 DEF ApprovalsInv, TypeOK, AnswersSigned
  <2> QED
    BY <2>2, <2>3 DEF AnswersSigned
<1> QED
  BY <1>2, <1>3, <1>4 DEF ApprovalsInv

LEMMA ListStep == ApprovalsInv /\ List => ApprovalsInv'
<1> SUFFICES ASSUME ApprovalsInv, List PROVE ApprovalsInv'
  OBVIOUS
<1>1. /\ UNCHANGED <<resolution, conn, console, signed, restarts>>
      /\ \A e \in screen' : \E k \in Keys :
           pending[k] # NoRequest /\ e = [id |-> k, call |-> pending[k]]
  BY DEF List
<1>2. TypeOK'
  BY <1>1 DEF ApprovalsInv, TypeOK, console
<1>3. IdsName' /\ ParkedOnce' /\ AnswersSigned'
  BY <1>1 DEF ApprovalsInv, IdsName, ParkedOnce, AnswersSigned, console
<1> QED
  BY <1>2, <1>3 DEF ApprovalsInv

LEMMA RestartStep == ApprovalsInv /\ ConsoleRestart => ApprovalsInv'
<1> SUFFICES ASSUME ApprovalsInv, ConsoleRestart PROVE ApprovalsInv'
  OBVIOUS
<1> USE DEF ConsoleRestart
<1>1. TypeOK'
  BY ApprovalsAssumption DEF ApprovalsInv, TypeOK, Waiters
<1>2. IdsName' /\ ParkedOnce' /\ AnswersSigned'
  BY DEF ApprovalsInv, IdsName, ParkedOnce, AnswersSigned
<1> QED
  BY <1>1, <1>2 DEF ApprovalsInv

LEMMA ApprovalsStep == ApprovalsInv /\ [Next]_vars => ApprovalsInv'
<1> SUFFICES ASSUME ApprovalsInv, [Next]_vars PROVE ApprovalsInv'
  OBVIOUS
<1>1. CASE UNCHANGED vars
  BY <1>1 DEF vars, console, ApprovalsInv, TypeOK, IdsName, ParkedOnce, AnswersSigned
<1>2. CASE Next
  BY <1>2, GatewayStep, SubmitStep, WaitStep, ListStep, ResolveStep, RestartStep DEF Next
<1> QED
  BY <1>1, <1>2

\* The parts of the inductive invariant hold throughout.
THEOREM ApprovalsInvariant == Spec => []ApprovalsInv
<1> QED
  BY InitApprovals, ApprovalsStep, PTL DEF Spec

---------------------------------------------------------------------------
\* No call has two answers that were both confirmed to an approver.
\* (console/approvals.py resolve)
THEOREM AnswersAreSingle == Spec => []OneAnswerEach
<1>1. ApprovalsInv => OneAnswerEach
  BY DEF ApprovalsInv, TypeOK, AnswersSigned, OneAnswerEach
<1> QED
  BY <1>1, ApprovalsInvariant, PTL

---------------------------------------------------------------------------
(* The refinement. *)

\* The broker returns an answer: a decision of the contract, or nothing new.
LEMMA ReturnRefines ==
  ASSUME ApprovalsInv, NEW r \in Requests, NEW answer \in {"approved", "denied"},
         Return(r, answer), UNCHANGED signed,
         answer = "approved" => r \in Consents \/ FailOpen
  PROVE  Contract!Next \/ UNCHANGED Contract!contract
<1>1. Consents' = Consents
  BY DEF Consents
<1>2. CASE resolution[r] = "waiting"
  <2>1. resolution' = [resolution EXCEPT ![r] = answer]
    BY <1>2 DEF Return
  <2>2. CASE answer = "approved"
    BY <1>1, <1>2, <2>1, <2>2 DEF Contract!Next, Contract!Approve
  <2>3. CASE answer = "denied"
    BY <1>1, <1>2, <2>1, <2>3 DEF Contract!Next, Contract!Deny
  <2> QED
    BY <2>2, <2>3
<1>3. CASE resolution[r] # "waiting"
  BY <1>1, <1>3 DEF Return, Contract!contract
<1> QED
  BY <1>2, <1>3

LEMMA StepRefines ==
  ASSUME ApprovalsInv, [Next]_vars
  PROVE  [Contract!Next]_(Contract!contract)
<1>1. ASSUME NEW r \in Requests, Ask(r)
      PROVE  Contract!Next
  BY <1>1 DEF Ask, Contract!Next, Contract!Ask, Consents
<1>2. ASSUME NEW r \in Requests, Deadline(r) \/ ChannelFails(r)
      PROVE  Contract!Next \/ UNCHANGED Contract!contract
  <2>1. OnError \in {"approved", "denied"} /\ (OnError = "approved" => FailOpen)
    BY DEF OnError
  <2> QED
    BY <1>2, <2>1, ReturnRefines DEF Deadline, ChannelFails
<1>3. ASSUME NEW r \in Requests, Answered(r)
      PROVE  Contract!Next \/ UNCHANGED Contract!contract
  <2>1. response[r] \in {"approved", "denied"} /\ (response[r] = "approved" => r \in Consents)
    BY <1>3 DEF Answered, ApprovalsInv, TypeOK, AnswersSigned, Consents
  <2> QED
    BY <1>3, <2>1, ReturnRefines DEF Answered
<1>4. ASSUME NEW entry \in screen, NEW answer \in {"approved", "denied"}, Resolve(entry, answer)
      PROVE  Contract!Next \/ UNCHANGED Contract!contract
  <2>1. /\ entry.call \in Requests /\ resolution' = resolution
        /\ signed' = signed \cup {[call |-> entry.call, answer |-> answer]}
    BY <1>4, ResolvesWhatIsShown DEF Resolve
  <2>2. resolution[entry.call] # "idle"
    BY ApprovalsAssumption DEF ApprovalsInv, TypeOK, IdsName, ParkedOnce
  <2>3. CASE answer = "approved"
    <3>1. Consents' = Consents \cup {entry.call}
      BY <2>1, <2>3 DEF Consents
    <3> QED
      BY <2>1, <2>2, <3>1 DEF Contract!Next, Contract!Consent
  <2>4. CASE answer = "denied"
    <3>1. Consents' = Consents
      BY <2>1, <2>4 DEF Consents
    <3> QED
      BY <2>1, <3>1 DEF Contract!contract
  <2> QED
    BY <2>3, <2>4
<1>5. ASSUME UNCHANGED <<resolution, signed>>
      PROVE  UNCHANGED Contract!contract
  BY <1>5 DEF Contract!contract, Consents
<1>6. ASSUME NEW r \in Requests, Submit(r) \/ WaitExpires(r) \/ WaitReturns(r)
      PROVE  UNCHANGED <<resolution, signed>>
  BY <1>6 DEF Submit, WaitExpires, WaitReturns
<1>7. List \/ ConsoleRestart \/ UNCHANGED vars => UNCHANGED <<resolution, signed>>
  BY DEF List, ConsoleRestart, vars
<1> QED
  BY <1>1, <1>2, <1>3, <1>4, <1>5, <1>6, <1>7 DEF Next

\* The broker, the console's queue and any number of stale browsers implement the
\* contract the pipeline relies on.  (broker.py request; console/approvals.py)
THEOREM ApprovalsImplementContract == Spec => KeepsContract
<1>1. Init => Contract!Init
  BY DEF Init, Contract!Init, Consents
<1> QED
  BY <1>1, StepRefines, ApprovalsInvariant, PTL DEF Spec, KeepsContract, Contract!Spec
=============================================================================
