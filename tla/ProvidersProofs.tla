---------------------------- MODULE ProvidersProofs ----------------------------
(***************************************************************************)
(* Theorems about Providers, for every set of calls, references, requests  *)
(* and providers, any number of workers and any number of faults.          *)
(***************************************************************************)
EXTENDS Providers, FiniteSetTheorems, SequenceTheorems, TLAPS

(* The access token *)

\* A token was fetched exactly if the client holds one.
TokenInv ==
    \/ token = FALSE /\ issued = 0
    \/ token = TRUE /\ issued = 1

LEMMA TokenStep == TokenInv /\ [Next]_vars => TokenInv'
<1> SUFFICES ASSUME TokenInv, [Next]_vars PROVE TokenInv'
    OBVIOUS
<1>0. UNCHANGED <<token, issued>> => TokenInv'
    BY DEF TokenInv
<1>1. ASSUME NEW t \in Threads, Submit(t) PROVE TokenInv'
    <2>1. CASE GetAccessToken(t) \/ FetchNewToken(t)
        BY <2>1 DEF GetAccessToken, FetchNewToken, TokenInv
    <2>2. CASE UNCHANGED <<token, issued>>
        BY <1>0, <2>2
    <2> QED
        BY <1>1, <2>1, <2>2 DEF Submit
<1>2. ASSUME NEW t \in Threads, ~Submit(t), Step(t) PROVE UNCHANGED <<token, issued>>
    BY <1>2 DEF Step, TransferWorker, TakeJob, PutResult, InitiateTransfer, AttemptTransfer,
        RecordOutcome, Enquire, AttemptEnquiry, BulkTransfer, InitiateBulkTransfer, NativeBulk,
        SplitAndProcessBulk, CollectResults, LegacyTransfer, CreateRecord, FinishRecord
<1>3. ASSUME NEW p \in Names, CoolDown(p) PROVE UNCHANGED <<token, issued>>
    BY <1>3 DEF CoolDown
<1>4. CASE UNCHANGED vars
    BY <1>4, <1>0 DEF vars
<1> QED
    BY <1>0, <1>1, <1>2, <1>3, <1>4 DEF Next

\* However many goroutines find that there is no access token, one is fetched
\* (fetchNewToken's second look under the lock).
THEOREM TokenOnce == Spec => []TokenFetchedOnce
<1>1. Init => TokenInv
    BY DEF Init, TokenInv
<1>2. TokenInv => TokenFetchedOnce
    BY DEF TokenInv, TokenFetchedOnce
<1> QED
    BY <1>1, <1>2, TokenStep, PTL DEF Spec

-----------------------------------------------------------------------------
(* Legacy transfers *)

Ref(c) == Head(Items(c))
TakenByVfd(c) == taken[Vfd][Ref(c)] = c

\* What the steps of a call rely on.
Shape ==
    /\ req \in Workloads
    /\ DOMAIN pc = Threads /\ DOMAIN job = Threads /\ DOMAIN got = Threads
    /\ DOMAIN answer = Calls
    /\ DOMAIN taken = Names /\ \A p \in Names : DOMAIN taken[p] = Refs

\* A legacy call has no pool and submits the one transfer it was given.
OneTransfer(c) ==
    /\ job[Main(c)] = Ref(c)
    /\ \A t \in Pool(c) : pc[t] = "idle"
    /\ pc[Main(c)] \in {"create", "token", "fetch", "send", "sent", "done"}

\* What VFD has done and what the call knows of it, before, with and after the reply.
Knows(c) ==
    /\ pc[Main(c)] \notin {"sent", "done"} => answer[c] = "none" /\ ~TakenByVfd(c)
    /\ pc[Main(c)] = "sent" =>
           /\ answer[c] = "none" /\ got[Main(c)] \in {"ok", "error"}
           /\ got[Main(c)] = "ok" => TakenByVfd(c)
           /\ c \notin hurt /\ TakenByVfd(c) => got[Main(c)] = "ok"
    /\ pc[Main(c)] = "done" =>
           /\ answer[c] # "none"
           /\ answer[c] = "ok" => TakenByVfd(c) /\ Ref(c) \in rows
           /\ c \notin hurt /\ TakenByVfd(c) => answer[c] = "ok"

RowsAreTaken == \A r \in rows : r \in Refs /\ Vfd \in Names /\ taken[Vfd][r] # Nobody

LegacyInv ==
    /\ Shape
    /\ \A c \in Calls : Op(c) = "legacy" => OneTransfer(c) /\ Knows(c)
    /\ RowsAreTaken

LEMMA LegacyGoesToVfd ==
    ASSUME NEW c \in Calls, Shape, Op(c) = "legacy"
    PROVE  Vfd \in Names /\ Kind[Vfd] = "vfd" /\ Ref(c) \in Refs
<1>1. \E p \in Names : Kind[p] = "vfd"
    BY ProvidersAssumption DEF Shape, Op
<1>2. Vfd \in Names /\ Kind[Vfd] = "vfd"
    BY <1>1 DEF Vfd
<1>3. Items(c) \in Seq(Refs) /\ Len(Items(c)) = 1
    BY ProvidersAssumption DEF Shape, Op, Items
<1>4. \A s \in Seq(Refs) : Len(s) = 1 => Head(s) \in Refs
    OBVIOUS
<1> QED
    BY <1>2, <1>3, <1>4 DEF Ref

LEMMA ThreadsOfCalls ==
    /\ \A c \in Calls : Main(c) \in Threads /\ Pool(c) \subseteq Threads /\ Main(c) \notin Pool(c)
    /\ \A t \in Threads : t[1] \in Calls /\ (t[2] = 0 <=> t = Main(t[1]))
    /\ \A t \in Threads : t = Main(t[1]) \/ t \in Pool(t[1])
    /\ \A c \in Calls : \A t \in Pool(c) : t[1] = c /\ t[2] # 0
    /\ \A c \in Calls : Main(c)[1] = c
    BY ProvidersAssumption DEF Threads, Main, Pool

\* What a step of a goroutine may do to what the providers have taken.
Taking(t) ==
    \A p \in Names, r \in Refs :
        \/ taken'[p][r] = taken[p][r]
        \/ taken[p][r] = Nobody /\ taken'[p][r] = t[1]

LEMMA SubmitTakes ==
    ASSUME Shape, NEW t \in Threads, Submit(t)
    PROVE  Taking(t) /\ DOMAIN taken' = Names /\ \A p \in Names : DOMAIN taken'[p] = Refs
<1>1. CASE UNCHANGED taken
    BY <1>1 DEF Taking, Shape
<1>2. CASE Takes(Target(t), job[t], t[1])
    BY <1>2 DEF Taking, Takes, Shape
<1> QED
    BY <1>1, <1>2 DEF Submit, SendTransfer, SendEnquiry

LEMMA NativeTakes ==
    ASSUME Shape, NEW c \in Calls, NativeBulk(c) \/ SplitAndProcessBulk(c)
    PROVE  Taking(Main(c)) /\ DOMAIN taken' = Names /\ \A p \in Names : DOMAIN taken'[p] = Refs
<1>1. CASE UNCHANGED taken
    BY <1>1 DEF Taking, Shape
<1>2. ASSUME NEW refs, NEW o \in NativeOutcomes(refs), Native(c, o)
      PROVE Taking(Main(c)) /\ DOMAIN taken' = Names /\ \A p \in Names : DOMAIN taken'[p] = Refs
    <2>1. \A r \in o.accepted : taken[Default][r] = Nobody
        BY <1>2 DEF NativeOutcomes
    <2>2. taken' = [taken EXCEPT ![Default] =
                       [r \in Refs |-> IF r \in o.accepted THEN c ELSE taken[Default][r]]]
        BY <1>2 DEF Native
    <2> QED
        BY <2>1, <2>2, ThreadsOfCalls DEF Taking, Shape
<1> QED
    BY <1>1, <1>2 DEF NativeBulk, SplitAndProcessBulk

LEMMA StepTakes ==
    ASSUME Shape, NEW t \in Threads, Step(t)
    PROVE  Taking(t) /\ DOMAIN taken' = Names /\ \A p \in Names : DOMAIN taken'[p] = Refs
<1>1. CASE UNCHANGED taken
    BY <1>1 DEF Taking, Shape
<1>2. CASE Submit(t)
    BY <1>2, SubmitTakes
<1>3. CASE t[2] = 0 /\ (NativeBulk(t[1]) \/ SplitAndProcessBulk(t[1]))
    BY <1>3, NativeTakes, ThreadsOfCalls
<1> QED
    BY <1>1, <1>2, <1>3 DEF Step, TransferWorker, TakeJob, PutResult, InitiateTransfer,
        AttemptTransfer, RecordOutcome, Enquire, AttemptEnquiry, BulkTransfer,
        InitiateBulkTransfer, CollectResults, LegacyTransfer, CreateRecord, FinishRecord

\* What a step leaves of a call that does not take it.
LeavesAlone(c) ==
    /\ \A t \in {Main(c)} \cup Pool(c) : pc'[t] = pc[t]
    /\ job'[Main(c)] = job[Main(c)] /\ got'[Main(c)] = got[Main(c)] /\ answer'[c] = answer[c]
    /\ c \notin hurt' => c \notin hurt

Domains == DOMAIN pc = Threads /\ DOMAIN job = Threads /\ DOMAIN got = Threads /\ DOMAIN answer = Calls

LEMMA OthersLeaveAlone ==
    ASSUME Shape, NEW t \in Threads, Step(t)
    PROVE  Domains' /\ UNCHANGED req /\ \A c \in Calls : c # t[1] => LeavesAlone(c)
<1> USE DEF Shape, Domains, LeavesAlone, Goto, Return, Fault, NoFault, callVars, bulkVars, legacyVars
<1> USE ThreadsOfCalls
<1>1. CASE Submit(t)
    BY <1>1 DEF Submit, GetAccessToken, FetchNewToken, SendTransfer, SendEnquiry
<1>2. CASE TransferWorker(t)
    BY <1>2 DEF TransferWorker, TakeJob, PutResult
<1>3. CASE t[2] = 0 /\ InitiateTransfer(t[1])
    BY <1>3 DEF InitiateTransfer, AttemptTransfer, RecordOutcome, TryNext
<1>4. CASE t[2] = 0 /\ Enquire(t[1])
    BY <1>4 DEF Enquire, TryNext
<1>5. CASE t[2] = 0 /\ AttemptEnquiry(t[1])
    BY <1>5 DEF AttemptEnquiry, TryNext
<1>6. CASE t[2] = 0 /\ InitiateBulkTransfer(t[1])
    BY <1>6 DEF InitiateBulkTransfer, StartPool
<1>7. CASE t[2] = 0 /\ NativeBulk(t[1])
    BY <1>7 DEF NativeBulk, Native
<1>8. CASE t[2] = 0 /\ SplitAndProcessBulk(t[1])
    BY <1>8 DEF SplitAndProcessBulk, StartPool, Native
<1>9. CASE t[2] = 0 /\ CollectResults(t[1])
    BY <1>9 DEF CollectResults
<1>10. CASE t[2] = 0 /\ LegacyTransfer(t[1])
    BY <1>10 DEF LegacyTransfer, CreateRecord, FinishRecord
<1> QED
    BY <1>1, <1>2, <1>3, <1>4, <1>5, <1>6, <1>7, <1>8, <1>9, <1>10 DEF Step, BulkTransfer

\* The steps of a legacy call.
LEMMA LegacySteps ==
    ASSUME Shape, NEW t \in Threads, Step(t), Op(t[1]) = "legacy", OneTransfer(t[1])
    PROVE  t = Main(t[1]) /\ (Submit(t) \/ LegacyTransfer(t[1]))
<1>1. t[1] \in Calls /\ (t = Main(t[1]) \/ t \in Pool(t[1])) /\ (t[2] = 0 <=> t = Main(t[1]))
    BY ThreadsOfCalls
<1>2. CASE t \in Pool(t[1])
    <2>1. pc[t] = "idle" /\ t[2] # 0
        BY <1>1, <1>2, ThreadsOfCalls DEF OneTransfer
    <2> QED
        BY <2>1 DEF Step, Submit, GetAccessToken, FetchNewToken, SendTransfer, SendEnquiry,
            TransferWorker, TakeJob, PutResult
<1>3. CASE t = Main(t[1])
    <2>1. pc[Main(t[1])] \in {"create", "token", "fetch", "send", "sent", "done"}
        BY DEF OneTransfer
    <2> QED
        BY <1>1, <1>3, <2>1 DEF Step, TransferWorker, InitiateTransfer, Enquire, AttemptEnquiry,
            BulkTransfer, InitiateBulkTransfer, NativeBulk, SplitAndProcessBulk, CollectResults
<1> QED
    BY <1>1, <1>2, <1>3

\* A reply of VFD is ok exactly if it says yes; only one that is lost hides a transfer.
LEMMA LegacyReply ==
    ASSUME Shape, NEW c \in Calls, Op(c) = "legacy", OneTransfer(c), Knows(c),
           SendTransfer(Main(c)), UNCHANGED req
    PROVE  /\ pc'[Main(c)] = "sent" /\ got'[Main(c)] \in {"ok", "error"}
           /\ got'[Main(c)] = "ok" => TakenByVfd(c)'
           /\ c \notin hurt' /\ TakenByVfd(c)' => got'[Main(c)] = "ok"
           /\ c \notin hurt' => c \notin hurt
<1> DEFINE t == Main(c)
<1>1. Vfd \in Names /\ Kind[Vfd] = "vfd" /\ Ref(c) \in Refs /\ t \in Threads /\ t[1] = c
    BY LegacyGoesToVfd, ThreadsOfCalls
<1>2. Target(t) = Vfd
    BY <1>1 DEF Target
<1>3. \A reply : Prepared(t, reply) = "ok"
    BY <1>1, <1>2 DEF Prepared
<1>4. \A reply : Transferred(t, reply) = VfdTransfer(reply)
    BY <1>1, <1>2 DEF Transferred
<1>5. \A reply \in Replies : VfdTransfer(reply) = IF reply = "yes" THEN "ok" ELSE "error"
    BY DEF VfdTransfer, DoRequest, CheckVFDStatus, Replies
<1>6. Ref(c)' = Ref(c)
    BY DEF Ref, Items
<1>7. ~TakenByVfd(c) /\ job[t] = Ref(c) /\ pc[t] = "send"
    BY DEF Knows, OneTransfer, SendTransfer
<1>8. PICK reply \in Replies :
          /\ got' = [got EXCEPT ![t] = Transferred(t, reply)]
          /\ \/ reply = "yes" /\ Takes(Vfd, Ref(c), c) /\ NoFault
             \/ reply # "yes" /\ UNCHANGED taken /\ NoFault
             \/ reply = "unreadable" /\ Takes(Vfd, Ref(c), c) /\ Fault(c)
    BY <1>1, <1>2, <1>3, <1>7 DEF SendTransfer
<1>9. got'[t] = IF reply = "yes" THEN "ok" ELSE "error"
    BY <1>1, <1>4, <1>5, <1>8 DEF Shape
<1>10. pc'[t] = "sent"
    BY <1>1 DEF SendTransfer, Goto, Shape
<1>11. TakenByVfd(c)' <=> taken'[Vfd][Ref(c)] = c
    BY <1>6 DEF TakenByVfd
<1>12. CASE reply = "yes" /\ Takes(Vfd, Ref(c), c) /\ NoFault
    <2>1. taken'[Vfd][Ref(c)] = c
        BY <1>1, <1>12 DEF Takes, Shape
    <2> QED
        BY <1>9, <1>10, <1>11, <1>12, <2>1 DEF NoFault
<1>13. CASE reply # "yes" /\ UNCHANGED taken /\ NoFault
    BY <1>7, <1>9, <1>10, <1>11, <1>13 DEF NoFault, TakenByVfd
<1>14. CASE reply = "unreadable" /\ Takes(Vfd, Ref(c), c) /\ Fault(c)
    BY <1>9, <1>10, <1>14 DEF Fault
<1> QED
    BY <1>8, <1>12, <1>13, <1>14

\* Only a legacy call that VFD has told ok commits a row.
LEMMA RowsGrow ==
    ASSUME NEW t \in Threads, Step(t)
    PROVE  \/ rows' = rows
           \/ /\ Op(t[1]) = "legacy" /\ pc[Main(t[1])] = "sent" /\ got[Main(t[1])] = "ok"
              /\ rows' = rows \cup {job[Main(t[1])]}
<1>1. CASE UNCHANGED rows
    BY <1>1
<1>2. CASE FinishRecord(t[1])
    BY <1>2 DEF FinishRecord
<1> QED
    BY <1>1, <1>2 DEF Step, Submit, legacyVars, TransferWorker, TakeJob, PutResult, InitiateTransfer,
        AttemptTransfer, RecordOutcome, Enquire, AttemptEnquiry, BulkTransfer,
        InitiateBulkTransfer, NativeBulk, SplitAndProcessBulk, CollectResults, LegacyTransfer,
        CreateRecord

LEMMA OtherLegacyCalls ==
    ASSUME LegacyInv, NEW t \in Threads, Step(t),
           NEW c \in Calls, Op(c) = "legacy", c # t[1]
    PROVE  OneTransfer(c)' /\ Knows(c)'
<1>1. LeavesAlone(c) /\ UNCHANGED req
    BY OthersLeaveAlone DEF LegacyInv
<1>2. Ref(c)' = Ref(c) /\ Ref(c) \in Refs /\ Vfd \in Names
    BY <1>1, LegacyGoesToVfd DEF Ref, Items, LegacyInv
<1>3. TakenByVfd(c)' <=> TakenByVfd(c)
    <2>1. Taking(t) /\ c # Nobody
        BY StepTakes, ProvidersAssumption DEF LegacyInv
    <2> QED
        BY <1>2, <2>1 DEF Taking, TakenByVfd
<1>4. rows \subseteq rows'
    BY RowsGrow
<1>5. OneTransfer(c) /\ Knows(c)
    BY DEF LegacyInv
<1>6. OneTransfer(c)'
    BY <1>1, <1>2, <1>5 DEF OneTransfer, LeavesAlone, Pool
<1>7. Knows(c)'
    BY <1>1, <1>2, <1>3, <1>4, <1>5 DEF Knows, LeavesAlone
<1> QED
    BY <1>6, <1>7

LEMMA OwnLegacyCall ==
    ASSUME LegacyInv, NEW t \in Threads, Step(t), Op(t[1]) = "legacy"
    PROVE  OneTransfer(t[1])' /\ Knows(t[1])'
<1> DEFINE c == t[1]
<1>1. Shape /\ OneTransfer(c) /\ Knows(c) /\ c \in Calls /\ UNCHANGED req /\ Domains'
    BY OthersLeaveAlone, ThreadsOfCalls DEF LegacyInv
<1>2. t = Main(c) /\ (Submit(t) \/ LegacyTransfer(c))
    BY <1>1, LegacySteps
<1>3. Ref(c)' = Ref(c) /\ Ref(c) \in Refs /\ Vfd \in Names /\ Kind[Vfd] = "vfd"
    BY <1>1, LegacyGoesToVfd DEF Ref, Items
<1>4. \A w \in Pool(c) : w \in Threads /\ w # Main(c)
    BY <1>1, ThreadsOfCalls
<1>5. UNCHANGED taken => (TakenByVfd(c)' <=> TakenByVfd(c))
    BY <1>3 DEF TakenByVfd
<1>6. Target(t) = Vfd /\ Submission(t) = "token"
    BY <1>2, <1>3, ThreadsOfCalls DEF Target, Submission
<1>7. CASE (GetAccessToken(t) \/ FetchNewToken(t)) /\ UNCHANGED <<taken, hurt, job, answer>>
    <2>1. /\ pc[t] \in {"token", "fetch"} /\ pc'[t] \in {"fetch", "send", "sent"}
          /\ \A w \in Pool(c) : pc'[w] = pc[w]
          /\ pc'[t] = "sent" => got'[t] = "error"
        BY <1>1, <1>2, <1>4, <1>7 DEF GetAccessToken, FetchNewToken, Goto, Shape
    <2>2. OneTransfer(c)'
        BY <1>1, <1>2, <1>3, <1>7, <2>1 DEF OneTransfer, Pool
    <2>3. Knows(c)'
        BY <1>1, <1>2, <1>5, <1>7, <2>1 DEF Knows
    <2> QED
        BY <2>2, <2>3
<1>8. CASE SendTransfer(t) /\ UNCHANGED <<job, answer>>
    <2>1. pc[t] = "send" /\ \A w \in Pool(c) : pc'[w] = pc[w]
        BY <1>1, <1>2, <1>4, <1>8 DEF SendTransfer, Goto, Shape
    <2>2. /\ pc'[t] = "sent" /\ got'[t] \in {"ok", "error"}
          /\ got'[t] = "ok" => TakenByVfd(c)'
          /\ c \notin hurt' /\ TakenByVfd(c)' => got'[t] = "ok"
        BY <1>1, <1>2, <1>8, LegacyReply
    <2>3. OneTransfer(c)'
        BY <1>1, <1>2, <1>3, <1>8, <2>1, <2>2 DEF OneTransfer, Pool
    <2>4. Knows(c)'
        BY <1>1, <1>2, <1>8, <2>1, <2>2 DEF Knows
    <2> QED
        BY <2>3, <2>4
<1>9. CASE CreateRecord(c)
    <2>1. /\ pc[t] = "create" /\ UNCHANGED <<taken, job, hurt>>
          /\ \/ pc'[t] = "token" /\ UNCHANGED answer
             \/ pc'[t] = "done" /\ answer'[c] = "error"
          /\ \A w \in Pool(c) : pc'[w] = pc[w]
        BY <1>1, <1>2, <1>4, <1>6, <1>9 DEF CreateRecord, Goto, Return, NoFault, Shape
    <2>2. OneTransfer(c)'
        BY <1>1, <1>2, <1>3, <2>1 DEF OneTransfer, Pool
    <2>3. Knows(c)'
        BY <1>1, <1>2, <1>5, <2>1 DEF Knows
    <2> QED
        BY <2>2, <2>3
<1>10. CASE FinishRecord(c)
    <2>1. /\ pc[t] = "sent" /\ pc'[t] = "done" /\ UNCHANGED <<taken, job>>
          /\ \/ got[t] = "ok" /\ answer'[c] = "ok" /\ job[t] \in rows' /\ UNCHANGED hurt
             \/ got[t] = "error" /\ answer'[c] = "error" /\ UNCHANGED hurt
             \/ answer'[c] = "error" /\ c \in hurt'
          /\ \A w \in Pool(c) : pc'[w] = pc[w]
        BY <1>1, <1>2, <1>4, <1>10 DEF FinishRecord, Return, NoFault, Fault, Shape
    <2>2. OneTransfer(c)'
        BY <1>1, <1>2, <1>3, <2>1 DEF OneTransfer, Pool
    <2>3. Knows(c)'
        BY <1>1, <1>2, <1>3, <1>5, <2>1 DEF Knows, OneTransfer
    <2> QED
        BY <2>2, <2>3
<1> QED
    BY <1>2, <1>7, <1>8, <1>9, <1>10, ThreadsOfCalls DEF Submit, LegacyTransfer, SendEnquiry,
        NoFault

LEMMA CommittedRows ==
    ASSUME LegacyInv, NEW t \in Threads, Step(t)
    PROVE  RowsAreTaken'
<1>1. Taking(t) /\ Shape
    BY StepTakes DEF LegacyInv
<1>2. Nobody \notin Calls /\ t[1] \in Calls
    BY ProvidersAssumption, ThreadsOfCalls
<1>3. \A r \in rows : r \in Refs /\ Vfd \in Names /\ taken'[Vfd][r] # Nobody
    BY <1>1, <1>2 DEF LegacyInv, RowsAreTaken, Taking
<1>4. CASE /\ Op(t[1]) = "legacy" /\ pc[Main(t[1])] = "sent" /\ got[Main(t[1])] = "ok"
           /\ rows' = rows \cup {job[Main(t[1])]}
    <2>1. Vfd \in Names /\ Ref(t[1]) \in Refs
        BY <1>1, <1>2, <1>4, LegacyGoesToVfd
    <2>2. job[Main(t[1])] = Ref(t[1]) /\ TakenByVfd(t[1])
        BY <1>2, <1>4 DEF LegacyInv, OneTransfer, Knows
    <2>3. taken'[Vfd][Ref(t[1])] # Nobody
        BY <1>1, <1>2, <2>1, <2>2 DEF Taking, TakenByVfd
    <2> QED
        BY <1>3, <1>4, <2>1, <2>2, <2>3 DEF RowsAreTaken
<1>5. CASE rows' = rows
    BY <1>3, <1>5 DEF RowsAreTaken
<1> QED
    BY <1>4, <1>5, RowsGrow

LEMMA LegacyStep == LegacyInv /\ [Next]_vars => LegacyInv'
<1> SUFFICES ASSUME LegacyInv, [Next]_vars PROVE LegacyInv'
    OBVIOUS
<1>1. ASSUME NEW t \in Threads, Step(t) PROVE LegacyInv'
    <2>1. Shape /\ Domains' /\ UNCHANGED req
        BY <1>1, OthersLeaveAlone DEF LegacyInv
    <2>2. Shape'
        BY <1>1, <2>1, StepTakes DEF Shape, Domains
    <2>3. \A c \in Calls : Op(c)' = Op(c)
        BY <2>1 DEF Op
    <2>4. \A c \in Calls : Op(c) = "legacy" => OneTransfer(c)' /\ Knows(c)'
        BY <1>1, OtherLegacyCalls, OwnLegacyCall
    <2> QED
        BY <1>1, <2>2, <2>3, <2>4, CommittedRows DEF LegacyInv
<1>2. ASSUME UNCHANGED <<req, taken, rows, pc, job, got, answer, hurt>> PROVE LegacyInv'
    BY <1>2 DEF LegacyInv, Shape, OneTransfer, Knows, TakenByVfd, RowsAreTaken, Ref, Items, Op
<1>3. ASSUME NEW p \in Names, CoolDown(p) PROVE LegacyInv'
    BY <1>2, <1>3 DEF CoolDown, callVars, legacyVars, NoFault
<1>4. CASE UNCHANGED vars
    BY <1>2, <1>4 DEF vars
<1> QED
    BY <1>1, <1>3, <1>4 DEF Next

LEMMA LegacyInit == Init => LegacyInv
<1> SUFFICES ASSUME Init PROVE LegacyInv
    OBVIOUS
<1>1. Shape
    BY DEF Init, Shape
<1>2. ASSUME NEW c \in Calls, Op(c) = "legacy" PROVE OneTransfer(c) /\ Knows(c)
    <2>1. Vfd \in Names /\ Ref(c) \in Refs /\ c # Nobody
        BY <1>1, <1>2, LegacyGoesToVfd, ProvidersAssumption
    <2>2. pc[Main(c)] = "create" /\ job[Main(c)] = Ref(c) /\ answer[c] = "none"
        BY <1>2, ThreadsOfCalls DEF Init, Start, Op, Ref, Items
    <2>3. \A t \in Pool(c) : pc[t] = "idle"
        BY ThreadsOfCalls DEF Init
    <2> QED
        BY <2>1, <2>2, <2>3 DEF Init, OneTransfer, Knows, TakenByVfd
<1>3. RowsAreTaken
    BY DEF Init, RowsAreTaken
<1> QED
    BY <1>1, <1>2, <1>3 DEF LegacyInv

\* A committed record of the legacy service is a transfer that VFD took, and a legacy call
\* that met no fault returned ok exactly if VFD took its transfer, which is then on record
\* (VFDTransferService.InitiateTransfer commits after the reply and rolls back on an error).
THEOREM RecordsAreTrue == Spec => []RecordedMeansTaken
<1>1. LegacyInv => RecordedMeansTaken
    <2> SUFFICES ASSUME LegacyInv PROVE RecordedMeansTaken
        OBVIOUS
    <2>1. \A r \in rows : taken[Vfd][r] # Nobody
        BY DEF LegacyInv, RowsAreTaken
    <2>2. ASSUME NEW c \in Calls, c \notin hurt, Op(c) = "legacy", answer[c] # "none"
          PROVE  /\ answer[c] = "ok" <=> taken[Vfd][Head(Items(c))] = c
                 /\ answer[c] = "ok" => Head(Items(c)) \in rows
        <3>1. OneTransfer(c) /\ Knows(c)
            BY <2>2 DEF LegacyInv
        <3>2. pc[Main(c)] = "done"
            BY <2>2, <3>1 DEF Knows
        <3> QED
            BY <2>2, <3>1, <3>2 DEF Knows, TakenByVfd, Ref
    <2> QED
        BY <2>1, <2>2 DEF RecordedMeansTaken
<1> QED
    BY <1>1, LegacyInit, LegacyStep, PTL DEF Spec

-----------------------------------------------------------------------------
(* Sequences *)

LEMMA TailProperties ==
    ASSUME NEW S, NEW s \in Seq(S), s # <<>>
    PROVE  /\ Head(s) \in S /\ Tail(s) \in Seq(S)
           /\ ToSet(s) = {Head(s)} \cup ToSet(Tail(s))
           /\ IsInjective(s) => IsInjective(Tail(s)) /\ Head(s) \notin ToSet(Tail(s))
<1>1. /\ Len(s) \in Nat \ {0} /\ DOMAIN s = 1 .. Len(s) /\ \A i \in DOMAIN s : s[i] \in S
      /\ Head(s) = s[1]
    OBVIOUS
<1>2. /\ Tail(s) \in Seq(S) /\ Len(Tail(s)) = Len(s) - 1 /\ DOMAIN Tail(s) = 1 .. Len(s) - 1
      /\ \A i \in 1 .. Len(s) - 1 : Tail(s)[i] = s[i + 1]
    OBVIOUS
<1>3. \A i \in DOMAIN s : i = 1 \/ (i - 1 \in DOMAIN Tail(s) /\ s[i] = Tail(s)[i - 1])
    BY <1>1, <1>2
<1>4. \A i \in DOMAIN Tail(s) : i + 1 \in DOMAIN s /\ i + 1 # 1 /\ Tail(s)[i] = s[i + 1]
    BY <1>1, <1>2
<1>5. ToSet(s) = {Head(s)} \cup ToSet(Tail(s))
    <2>1. ToSet(s) \subseteq {Head(s)} \cup ToSet(Tail(s))
        <3>1. ASSUME NEW i \in DOMAIN s PROVE s[i] = Head(s) \/ s[i] \in ToSet(Tail(s))
            <4>1. CASE i = 1
                BY <1>1, <4>1
            <4>2. CASE i - 1 \in DOMAIN Tail(s) /\ s[i] = Tail(s)[i - 1]
                BY <4>2 DEF ToSet
            <4> QED
                BY <1>3, <4>1, <4>2
        <3> QED
            BY <3>1 DEF ToSet
    <2>2. {Head(s)} \cup ToSet(Tail(s)) \subseteq ToSet(s)
        BY <1>1, <1>4 DEF ToSet
    <2> QED
        BY <2>1, <2>2
<1>6. ASSUME IsInjective(s) PROVE IsInjective(Tail(s)) /\ Head(s) \notin ToSet(Tail(s))
    <2>1. \A i, j \in DOMAIN s : s[i] = s[j] => i = j
        BY <1>6 DEF IsInjective
    <2>2. 1 \in DOMAIN s
        BY <1>1
    <2>3. Head(s) \notin ToSet(Tail(s))
        BY <1>1, <1>4, <2>1, <2>2 DEF ToSet
    <2>4. ASSUME NEW i \in DOMAIN Tail(s), NEW j \in DOMAIN Tail(s), Tail(s)[i] = Tail(s)[j]
          PROVE  i = j
        <3>1. i + 1 = j + 1 /\ i \in Int /\ j \in Int
            BY <1>2, <1>4, <2>1, <2>4
        <3> QED
            BY <3>1
    <2> QED
        BY <2>3, <2>4 DEF IsInjective
<1> QED
    BY <1>1, <1>2, <1>5, <1>6

\* A sequence is cut in two after n of its elements.
LEMMA CutProperties ==
    ASSUME NEW S, NEW s \in Seq(S), NEW n \in 0 .. Len(s)
    PROVE  LET a == SubSeq(s, 1, n)
               b == SubSeq(s, n + 1, Len(s))
           IN  /\ a \in Seq(S) /\ b \in Seq(S) /\ Len(a) = n /\ Len(b) = Len(s) - n
               /\ ToSet(a) \subseteq ToSet(s) /\ ToSet(b) \subseteq ToSet(s)
               /\ IsInjective(s) => IsInjective(a) /\ IsInjective(b) /\ ToSet(a) \cap ToSet(b) = {}
<1> DEFINE a == SubSeq(s, 1, n)
           b == SubSeq(s, n + 1, Len(s))
<1>1. Len(s) \in Nat /\ n \in Nat /\ n <= Len(s) /\ DOMAIN s = 1 .. Len(s)
    OBVIOUS
<1>2. a \in Seq(S) /\ Len(a) = n /\ \A i \in 1 .. n : a[i] = s[i]
    <2>1. \A i \in 1 .. n : s[i] \in S
        BY <1>1
    <2>2. a \in Seq(S) /\ Len(a) = IF 1 <= n THEN n - 1 + 1 ELSE 0
        BY <1>1, <2>1, SubSeqProperties
    <2>3. \A i \in 1 .. n - 1 + 1 : a[i] = s[1 + i - 1]
        BY <1>1, <2>1, SubSeqProperties
    <2> QED
        BY <1>1, <2>2, <2>3
<1>3. b \in Seq(S) /\ Len(b) = Len(s) - n /\ \A i \in 1 .. Len(s) - n : b[i] = s[n + i]
    <2>1. \A i \in n + 1 .. Len(s) : s[i] \in S
        BY <1>1
    <2>2. b \in Seq(S) /\ Len(b) = IF n + 1 <= Len(s) THEN Len(s) - (n + 1) + 1 ELSE 0
        BY <1>1, <2>1, SubSeqProperties
    <2>3. \A i \in 1 .. Len(s) - (n + 1) + 1 : b[i] = s[n + 1 + i - 1]
        BY <1>1, <2>1, SubSeqProperties
    <2>4. Len(s) - (n + 1) + 1 = Len(s) - n /\ \A i \in Int : n + 1 + i - 1 = n + i
        BY <1>1
    <2>5. \A i \in 1 .. Len(s) - n : b[i] = s[n + i]
        <3> HIDE DEF b
        <3> QED
            BY <2>3, <2>4
    <2>6. Len(b) = Len(s) - n
        <3> HIDE DEF b
        <3>1. CASE n + 1 <= Len(s)
            BY <1>1, <2>2, <3>1
        <3>2. CASE n = Len(s)
            BY <1>1, <2>2, <3>2
        <3>3. n + 1 <= Len(s) \/ n = Len(s)
            <4>1. \A k, l \in Nat : k <= l => k + 1 <= l \/ k = l
                OBVIOUS
            <4> QED
                BY <1>1, <4>1
        <3> QED
            BY <3>1, <3>2, <3>3
    <2> QED
        BY <2>2, <2>5, <2>6
<1>4. DOMAIN a = 1 .. n /\ DOMAIN b = 1 .. Len(s) - n
    BY <1>2, <1>3
<1> HIDE DEF a, b
<1>6. \A i \in DOMAIN a : i \in DOMAIN s /\ i <= n /\ a[i] = s[i]
    BY <1>1, <1>2, <1>4
<1>7. \A i \in DOMAIN b : n + i \in DOMAIN s /\ n + i > n /\ b[i] = s[n + i]
    BY <1>1, <1>3, <1>4
<1>8. ToSet(a) \subseteq ToSet(s) /\ ToSet(b) \subseteq ToSet(s)
    BY <1>6, <1>7 DEF ToSet
<1>9. ASSUME IsInjective(s) PROVE IsInjective(a) /\ IsInjective(b) /\ ToSet(a) \cap ToSet(b) = {}
    <2>1. \A i, j \in DOMAIN s : s[i] = s[j] => i = j
        BY <1>9 DEF IsInjective
    <2>2. IsInjective(a)
        BY <1>6, <2>1 DEF IsInjective
    <2>3. ASSUME NEW i \in DOMAIN b, NEW j \in DOMAIN b, b[i] = b[j] PROVE i = j
        <3>1. n + i = n + j /\ i \in Int /\ j \in Int
            BY <1>4, <1>7, <2>1, <2>3
        <3> QED
            BY <1>1, <3>1
    <2>4. \A i \in DOMAIN a, j \in DOMAIN b : a[i] # b[j]
        <3> SUFFICES ASSUME NEW i \in DOMAIN a, NEW j \in DOMAIN b, a[i] = b[j] PROVE FALSE
            OBVIOUS
        <3>1. i = n + j
            BY <1>6, <1>7, <2>1
        <3> QED
            BY <1>1, <1>6, <1>7, <3>1
    <2>5. ToSet(a) \cap ToSet(b) = {}
        BY <2>4 DEF ToSet
    <2> QED
        BY <2>2, <2>3, <2>5 DEF IsInjective
<1> QED
    BY <1>2, <1>3, <1>8, <1>9 DEF a, b

LEMMA ElementsAreFinite ==
    ASSUME NEW S, NEW s \in Seq(S)
    PROVE  ToSet(s) \subseteq S /\ IsFiniteSet(ToSet(s))
<1>1. Len(s) \in Nat /\ DOMAIN s = 1 .. Len(s) /\ \A i \in DOMAIN s : s[i] \in S
    OBVIOUS
<1>2. IsFiniteSet(DOMAIN s)
    BY <1>1, FS_Interval
<1>3. s \in [DOMAIN s -> ToSet(s)]
    BY <1>1 DEF ToSet
<1>4. s \in Surjection(DOMAIN s, ToSet(s))
    BY <1>3 DEF Surjection, ToSet
<1> QED
    BY <1>1, <1>2, <1>4, FS_Surjection DEF ToSet

LEMMA SetToSeqProperties ==
    ASSUME NEW S, IsFiniteSet(S)
    PROVE  /\ SetToSeq(S) \in Seq(S)
           /\ IsInjective(SetToSeq(S))
           /\ \A i \in DOMAIN SetToSeq(S) : SetToSeq(S)[i] \in S
<1> DEFINE n == Cardinality(S)
<1>1. n \in Nat /\ ExistsBijection(1 .. n, S)
    BY FS_CardinalityType
<1>2. PICK f \in Bijection(1 .. n, S) : TRUE
    BY <1>1 DEF ExistsBijection
<1>3. f \in [1 .. n -> S] /\ \A i, j \in 1 .. n : f[i] = f[j] => i = j
    BY <1>2 DEF Bijection, Injection, IsInjective
<1>4. \E g \in [1 .. n -> S] : IsInjective(g)
    BY <1>3 DEF IsInjective
<1>5. SetToSeq(S) \in [1 .. n -> S] /\ IsInjective(SetToSeq(S))
    BY <1>4 DEF SetToSeq
<1> QED
    BY <1>1, <1>5

-----------------------------------------------------------------------------
(* Types *)

\* The labels at which a goroutine has a transfer in hand.
Busy == {"token", "fetch", "send", "sent"}

\* A goroutine that submits has a reference to submit.
TypeInv ==
    /\ TypeOK
    /\ \A t \in Threads : t[2] = 0 \/ pc[t] \in Busy => job[t] \in Refs

LEMMA ItemsTyped ==
    ASSUME req \in Workloads, NEW c \in Calls
    PROVE  /\ Items(c) \in Seq(Refs) /\ Items(c) # <<>> /\ Head(Items(c)) \in Refs
           /\ Len(Items(c)) \in Nat \ {0}
           /\ Op(c) \in {"single", "bulk", "legacy", "enquiry", "idle"}
<1>1. /\ Items(c) \in Seq(Refs) /\ Op(c) \in {"single", "bulk", "legacy", "enquiry", "idle"}
      /\ IF Op(c) = "bulk" THEN Items(c) # <<>> ELSE Len(Items(c)) = 1
    BY ProvidersAssumption DEF Items, Op
<1>2. \A s \in Seq(Refs) : s # <<>> \/ Len(s) = 1 =>
          s # <<>> /\ Head(s) \in Refs /\ Len(s) \in Nat \ {0}
    OBVIOUS
<1> QED
    BY <1>1, <1>2

LEMMA ChainTyped ==
    ASSUME chain \in {Order(config) : config \in Configs}
    PROVE  chain \in Seq(Names) /\ Len(chain) \in Nat \ {0} /\ Default \in Names
<1>1. chain \in Seq(Names) /\ chain # <<>>
    BY OrderAssumption
<1> QED
    BY <1>1 DEF Default

LEMMA CapacityTyped ==
    ASSUME req \in Workloads, NEW c \in Calls
    PROVE  Capacity(c) \in Nat
    BY ItemsTyped, ProvidersAssumption DEF Capacity

\* The results that a native call reports are those of transfers it was given.
LEMMA ReportedTyped ==
    ASSUME NEW refs, refs \subseteq Refs, IsFiniteSet(refs), NEW o \in NativeOutcomes(refs)
    PROVE  /\ Reported(o) \in Seq(ResultType)
           /\ \A i \in DOMAIN Reported(o) :
                  Reported(o)[i].ref \in o.invalid /\ Reported(o)[i].success = FALSE
           /\ \A i, j \in DOMAIN Reported(o) : Reported(o)[i].ref = Reported(o)[j].ref => i = j
<1> DEFINE S == {Result(r, FALSE) : r \in o.invalid}
<1>1. o.invalid \subseteq refs
    BY DEF NativeOutcomes
<1>2. IsFiniteSet(o.invalid)
    BY <1>1, FS_Subset
<1>3. IsFiniteSet(S)
    <2> DEFINE f == [r \in o.invalid |-> Result(r, FALSE)]
    <2>1. f \in Surjection(o.invalid, S)
        BY DEF Surjection
    <2> QED
        BY <1>2, <2>1, FS_Surjection
<1>4. \A x \in S : x \in ResultType /\ x.ref \in o.invalid /\ x = Result(x.ref, FALSE)
          /\ x.success = FALSE
    <2>1. ASSUME NEW r \in o.invalid
          PROVE  /\ Result(r, FALSE) \in ResultType /\ Result(r, FALSE).ref = r
                 /\ Result(r, FALSE).success = FALSE
        BY <1>1 DEF Result, ResultType
    <2>2. \A x \in S : \E r \in o.invalid : x = Result(r, FALSE)
        OBVIOUS
    <2> HIDE DEF S
    <2> SUFFICES ASSUME NEW x \in S
                 PROVE  /\ x \in ResultType /\ x.ref \in o.invalid
                        /\ x = Result(x.ref, FALSE) /\ x.success = FALSE
        BY Zenon
    <2>3. PICK r \in o.invalid : x = Result(r, FALSE)
        BY <2>2
    <2> QED
        BY <2>1, <2>3
<1> HIDE DEF S
<1>5. CASE o.status = "error"
    <2>1. Reported(o) = <<>>
        BY <1>5 DEF Reported
    <2> QED
        BY <2>1
<1>6. CASE o.status # "error"
    <2>1. Reported(o) = SetToSeq(S)
        BY <1>6 DEF Reported, S
    <2>2. /\ Reported(o) \in Seq(S) /\ IsInjective(Reported(o))
          /\ \A i \in DOMAIN Reported(o) : Reported(o)[i] \in S
        BY <1>3, <2>1, SetToSeqProperties
    <2>3. Reported(o) \in Seq(ResultType)
        BY <1>4, <2>2, SeqMonotonic
    <2> QED
        <3>1. \A i \in DOMAIN Reported(o) : Reported(o)[i] = Result(Reported(o)[i].ref, FALSE)
                  /\ Reported(o)[i].ref \in o.invalid /\ Reported(o)[i].success = FALSE
            BY <1>4, <2>2
        <3>2. \A i, j \in DOMAIN Reported(o) : Reported(o)[i].ref = Reported(o)[j].ref =>
                  Reported(o)[i] = Reported(o)[j]
            BY <3>1
        <3> QED
            BY <2>2, <2>3, <3>1, <3>2 DEF IsInjective
<1> QED
    BY <1>5, <1>6

\* The conjuncts of TypeInv, by what they are about.
FixedTyped == chain \in {Order(config) : config \in Configs} /\ req \in Workloads
SharedTyped ==
    /\ breaker \in [Names -> BreakerType]
    /\ token \in BOOLEAN
    /\ issued \in Nat
    /\ taken \in [Names -> [Refs -> Calls \cup {Nobody}]]
    /\ rows \subseteq Refs
    /\ writer \in [Refs -> Calls \cup {Nobody}]
    /\ faults \in 0 .. MaxFaults
    /\ hurt \subseteq Calls
ThreadsTyped ==
    /\ pc \in [Threads -> Labels]
    /\ at \in [Calls -> 1 .. Len(chain)]
    /\ job \in [Threads -> Refs \cup {NoRef}]
    /\ got \in [Threads -> {"none", "ok", "refused", "error"}]
    /\ answer \in [Calls -> {"none", "ok", "refused", "error", "complete", "partial", "failed", "processing"}]
    /\ \A t \in Threads : t[2] = 0 \/ pc[t] \in Busy => job[t] \in Refs
QueuesTyped ==
    /\ jobs \in [Calls -> Seq(Refs)]
    /\ channel \in [Calls -> Seq(ResultType)]
    /\ \A c \in Calls : Len(channel[c]) <= Capacity(c)
    /\ rest \in [Calls -> Seq(Refs)]
    /\ results \in [Calls -> Seq(ResultType)]

LEMMA TypeParts == TypeInv <=> FixedTyped /\ SharedTyped /\ ThreadsTyped /\ QueuesTyped
    BY DEF TypeInv, TypeOK, FixedTyped, SharedTyped, ThreadsTyped, QueuesTyped

LEMMA StepKeepsRequests ==
    ASSUME NEW t \in Threads, Step(t)
    PROVE  UNCHANGED <<chain, req>>
    BY DEF Step, Submit, callVars, TransferWorker, TakeJob, PutResult, InitiateTransfer,
        AttemptTransfer, RecordOutcome, Enquire, AttemptEnquiry, BulkTransfer, InitiateBulkTransfer,
        NativeBulk, SplitAndProcessBulk, CollectResults, LegacyTransfer, CreateRecord, FinishRecord

LEMMA ProviderTyped ==
    ASSUME FixedTyped, at \in [Calls -> 1 .. Len(chain)], NEW t \in Threads
    PROVE  Provider(t) \in Names
    BY ChainTyped, ThreadsOfCalls DEF FixedTyped, Provider

LEMMA BreakerTyped ==
    ASSUME breaker \in [Names -> BreakerType], NEW p \in Names,
           Allow(p) \/ RecordSuccess(p) \/ RecordFailure(p) \/ Cool(p)
    PROVE  breaker' \in [Names -> BreakerType]
<1>1. breaker[p] \in BreakerType
    OBVIOUS
<1>2. CASE Allow(p)
    BY <1>1, <1>2 DEF Allow, BreakerType
<1>3. CASE RecordSuccess(p)
    BY <1>1, <1>3 DEF RecordSuccess, BreakerType
<1>4. CASE RecordFailure(p)
    <2> DEFINE b == [breaker[p] EXCEPT
                        !.failures = breaker[p].failures + 1,
                        !.cooled = FALSE,
                        !.state = IF breaker[p].failures + 1 >= FailureThreshold
                                  THEN "open" ELSE breaker[p].state]
    <2>1. breaker[p].failures + 1 \in Nat
        BY <1>1 DEF BreakerType
    <2>2. b \in BreakerType
        BY <1>1, <2>1 DEF BreakerType
    <2>3. breaker' = [breaker EXCEPT ![p] = b]
        BY <1>4 DEF RecordFailure
    <2> HIDE DEF b
    <2> QED
        BY <2>2, <2>3
<1>5. CASE Cool(p)
    BY <1>1, <1>5 DEF Cool, BreakerType
<1> QED
    BY <1>2, <1>3, <1>4, <1>5

\* A worker that submits does so with the job it has; a call, with the one it was given.
LEMMA SubmitterHasJob ==
    ASSUME ThreadsTyped, NEW t \in Threads, pc[t] \in Busy
    PROVE  job[t] \in Refs
    BY DEF ThreadsTyped

LEMMA SharedStep ==
    ASSUME TypeInv, NEW t \in Threads, Step(t)
    PROVE  SharedTyped'
<1>1. FixedTyped /\ SharedTyped /\ ThreadsTyped /\ QueuesTyped
    BY TypeParts
<1>2. t[1] \in Calls /\ (t[2] = 0 => t = Main(t[1])) /\ Main(t[1]) \in Threads
    BY ThreadsOfCalls
<1>3. Provider(Main(t[1])) \in Names /\ MaxFaults \in Nat
    BY <1>1, <1>2, ProviderTyped, ProvidersAssumption DEF ThreadsTyped
<1>4. breaker' \in [Names -> BreakerType]
    <2>1. CASE UNCHANGED breaker
        BY <1>1, <2>1 DEF SharedTyped
    <2>2. CASE \/ Allow(Provider(Main(t[1]))) \/ RecordSuccess(Provider(Main(t[1])))
               \/ RecordFailure(Provider(Main(t[1])))
        BY <1>1, <1>3, <2>2, BreakerTyped DEF SharedTyped
    <2> QED
        BY <2>1, <2>2 DEF Step, Submit, TransferWorker, TakeJob, PutResult, InitiateTransfer,
            AttemptTransfer, RecordOutcome, Enquire, AttemptEnquiry, BulkTransfer, InitiateBulkTransfer,
            NativeBulk, SplitAndProcessBulk, CollectResults, LegacyTransfer, CreateRecord, FinishRecord
<1>5. token' \in BOOLEAN /\ issued' \in Nat
    <2>1. CASE UNCHANGED <<token, issued>>
        BY <1>1, <2>1 DEF SharedTyped
    <2>2. CASE GetAccessToken(t) \/ FetchNewToken(t)
        <3>1. UNCHANGED <<token, issued>> \/ (token' = TRUE /\ issued' = issued + 1)
            BY <2>2 DEF GetAccessToken, FetchNewToken
        <3> QED
            <4>1. issued' \in Nat
                BY <1>1, <3>1 DEF SharedTyped
            <4>2. token' \in BOOLEAN
                BY <1>1, <3>1, Zenon DEF SharedTyped
            <4> QED
                BY <4>1, <4>2
    <2> QED
        BY <2>1, <2>2 DEF Step, Submit, TransferWorker, TakeJob, PutResult, InitiateTransfer,
            AttemptTransfer, RecordOutcome, Enquire, AttemptEnquiry, BulkTransfer, InitiateBulkTransfer,
            NativeBulk, SplitAndProcessBulk, CollectResults, LegacyTransfer, CreateRecord, FinishRecord
<1>6. taken' \in [Names -> [Refs -> Calls \cup {Nobody}]]
    <2>1. CASE UNCHANGED taken
        BY <1>1, <2>1 DEF SharedTyped
    <2>2. CASE Takes(Target(t), job[t], t[1])
        BY <1>1, <1>2, <2>2 DEF SharedTyped, Takes
    <2>3. CASE \E o : Native(t[1], o)
        <3>1. PICK o : taken' = [taken EXCEPT ![Default] =
                           [r \in Refs |-> IF r \in o.accepted THEN t[1] ELSE taken[Default][r]]]
            BY <2>3 DEF Native
        <3>2. Default \in Names
            BY <1>1, ChainTyped DEF FixedTyped
        <3>3. [r \in Refs |-> IF r \in o.accepted THEN t[1] ELSE taken[Default][r]]
                  \in [Refs -> Calls \cup {Nobody}]
            BY <1>1, <1>2, <3>2 DEF SharedTyped
        <3> QED
            BY <1>1, <3>1, <3>3 DEF SharedTyped
    <2> QED
        BY <2>1, <2>2, <2>3 DEF Step, Submit, SendTransfer, SendEnquiry, TransferWorker, TakeJob,
            PutResult, InitiateTransfer, AttemptTransfer, RecordOutcome, Enquire, AttemptEnquiry,
            BulkTransfer, InitiateBulkTransfer, NativeBulk, SplitAndProcessBulk, CollectResults,
            LegacyTransfer, CreateRecord, FinishRecord
<1>7. rows' \subseteq Refs /\ writer' \in [Refs -> Calls \cup {Nobody}]
    <2>1. CASE UNCHANGED legacyVars
        BY <1>1, <2>1 DEF SharedTyped, legacyVars
    <2>2. CASE CreateRecord(t[1]) \/ FinishRecord(t[1])
        <3>1. job[Main(t[1])] \in Refs
            BY <1>1, <1>2 DEF ThreadsTyped, Main
        <3> QED
            BY <1>1, <1>2, <2>2, <3>1 DEF SharedTyped, CreateRecord, FinishRecord, SetWriter
    <2> QED
        BY <2>1, <2>2 DEF Step, Submit, TransferWorker, TakeJob, PutResult, InitiateTransfer,
            AttemptTransfer, RecordOutcome, Enquire, AttemptEnquiry, BulkTransfer, InitiateBulkTransfer,
            NativeBulk, SplitAndProcessBulk, CollectResults, LegacyTransfer
<1>8. faults' \in 0 .. MaxFaults /\ hurt' \subseteq Calls
    <2>1. CASE NoFault
        BY <1>1, <2>1 DEF SharedTyped, NoFault
    <2>2. CASE Fault(t[1])
        BY <1>1, <1>2, <1>3, <2>2 DEF SharedTyped, Fault
    <2> QED
        BY <2>1, <2>2 DEF Step, Submit, SendTransfer, SendEnquiry, TransferWorker, TakeJob,
            PutResult, InitiateTransfer, AttemptTransfer, RecordOutcome, Enquire, AttemptEnquiry,
            BulkTransfer, InitiateBulkTransfer, NativeBulk, Native, SplitAndProcessBulk, CollectResults,
            LegacyTransfer, CreateRecord, FinishRecord
<1> QED
    BY <1>4, <1>5, <1>6, <1>7, <1>8 DEF SharedTyped

\* How the last submission of a goroutine ended, as the clients tell it.
LEMMA RepliesTyped ==
    ASSUME NEW t, Kind[Target(t)] \in {"paystack", "korapay", "vfd"}
    PROVE  \A reply \in Replies :
               /\ Prepared(t, reply) \in {"ok", "refused", "error"}
               /\ Transferred(t, reply) \in {"ok", "refused", "error"}
               /\ Transferred(t, reply) = "ok" <=> reply = "yes"
               /\ VfdTransfer(reply) \in {"ok", "error"}
    BY DEF Replies, Prepared, Transferred, PaystackPrepares, VfdPrepares, PaystackTransfer,
        KorapayTransfer, VfdTransfer, MakeRequest, MapPaystackResponse, MapKorapayResponse, DoRequest,
        CheckVFDStatus

LEMMA TargetTyped ==
    ASSUME FixedTyped, at \in [Calls -> 1 .. Len(chain)], NEW t \in Threads
    PROVE  Target(t) \in Names /\ Kind[Target(t)] \in {"paystack", "korapay", "vfd"}
<1>1. CASE Op(t[1]) = "legacy"
    <2>1. \E p \in Names : Kind[p] = "vfd"
        BY <1>1, ThreadsOfCalls, ProvidersAssumption DEF FixedTyped, Op
    <2> QED
        BY <1>1, <2>1 DEF Target, Vfd
<1>2. CASE Op(t[1]) # "legacy"
    BY <1>2, ProviderTyped, ProvidersAssumption DEF Target
<1> QED
    BY <1>1, <1>2

LEMMA ThreadsStep ==
    ASSUME TypeInv, NEW t \in Threads, Step(t)
    PROVE  ThreadsTyped'
<1> DEFINE c == t[1]
<1>1. FixedTyped /\ SharedTyped /\ ThreadsTyped /\ QueuesTyped
    BY TypeParts
<1>2. c \in Calls /\ (t[2] = 0 => t = Main(c)) /\ Main(c) \in Threads /\ Main(c)[2] = 0
    BY ThreadsOfCalls DEF Main
<1>3. chain' = chain /\ chain \in Seq(Names) /\ Len(chain) \in Nat \ {0}
    BY <1>1, StepKeepsRequests, ChainTyped DEF FixedTyped
<1>4. ASSUME NEW u \in Threads, NEW label \in Labels, Goto(u, label), UNCHANGED <<at, job, got, answer>>,
             u[2] = 0 \/ label \notin Busy \/ pc[u] \in Busy
      PROVE  ThreadsTyped'
    BY <1>1, <1>3, <1>4 DEF ThreadsTyped, Goto
<1>5. ASSUME NEW u \in Threads, pc[u] \in Busy, Goto(u, "sent"), UNCHANGED <<at, job, answer>>,
             NEW ending \in {"ok", "refused", "error"}, got' = [got EXCEPT ![u] = ending]
      PROVE  ThreadsTyped'
    BY <1>1, <1>3, <1>5 DEF ThreadsTyped, Goto, Labels
<1>6. ASSUME UNCHANGED <<at, job, got>>, NEW a, Return(c, a),
             a \in {"none", "ok", "refused", "error", "complete", "partial", "failed", "processing"}
      PROVE  ThreadsTyped'
    BY <1>1, <1>2, <1>3, <1>6 DEF ThreadsTyped, Return, Labels, Busy
<1>7. ASSUME UNCHANGED <<job, got>>, TryNext(c)
      PROVE  ThreadsTyped'
    <2>1. CASE at[c] < Len(chain)
        <3>1. at' = [at EXCEPT ![c] = @ + 1] /\ Goto(Main(c), Start[Op(c)]) /\ UNCHANGED answer
            BY <1>7, <2>1 DEF TryNext
        <3>2. at' \in [Calls -> 1 .. Len(chain)]
            BY <1>1, <1>2, <1>3, <2>1, <3>1 DEF ThreadsTyped
        <3>3. Start[Op(c)] \in Labels
            BY <1>1, <1>2, ItemsTyped DEF FixedTyped, Start, Labels
        <3> QED
            BY <1>1, <1>2, <1>3, <1>7, <3>1, <3>2, <3>3 DEF ThreadsTyped, Goto
    <2>2. CASE ~(at[c] < Len(chain))
        BY <1>6, <1>7, <2>2 DEF TryNext
    <2> QED
        BY <2>1, <2>2
<1>8. ASSUME NEW refs, StartPool(c, refs), UNCHANGED <<at, job, got, answer>>
      PROVE  ThreadsTyped'
    BY <1>1, <1>3, <1>8 DEF ThreadsTyped, StartPool, Labels, Busy
<1>9. CASE Submit(t)
    <2>1. UNCHANGED <<at, job, answer>>
        BY <1>9 DEF Submit
    <2>2. \A reply \in Replies :
              /\ Prepared(t, reply) \in {"ok", "refused", "error"}
              /\ Transferred(t, reply) \in {"ok", "refused", "error"}
              /\ VfdTransfer(reply) \in {"ok", "refused", "error"}
        BY <1>1, TargetTyped, RepliesTyped DEF ThreadsTyped
    <2>3. CASE GetAccessToken(t)
        <3>1. pc[t] \in Busy /\ UNCHANGED got /\ \E label \in Labels : Goto(t, label)
            BY <2>3 DEF GetAccessToken, Labels, Busy
        <3> QED
            BY <1>4, <2>1, <3>1
    <2>4. CASE FetchNewToken(t)
        <3>1. /\ pc[t] \in Busy
              /\ \/ UNCHANGED got /\ Goto(t, "send")
                 \/ Goto(t, "sent") /\ got' = [got EXCEPT ![t] = "error"]
            BY <2>4 DEF FetchNewToken, Busy
        <3>2. "send" \in Labels
            BY DEF Labels
        <3> QED
            BY <1>4, <1>5, <2>1, <3>1, <3>2
    <2>5. CASE SendTransfer(t) \/ SendEnquiry(t)
        <3>1. pc[t] \in Busy /\ Goto(t, "sent")
            BY <2>5 DEF SendTransfer, SendEnquiry, Busy
        <3>2. PICK ending \in {"ok", "refused", "error"} : got' = [got EXCEPT ![t] = ending]
            BY <2>2, <2>5 DEF SendTransfer, SendEnquiry
        <3> QED
            BY <1>5, <2>1, <3>1, <3>2
    <2> QED
        BY <1>9, <2>3, <2>4, <2>5 DEF Submit
<1>10. CASE TransferWorker(t)
    <2>1. CASE TakeJob(t) /\ jobs[c] # <<>>
        <3>1. /\ job' = [job EXCEPT ![t] = Head(jobs[c])] /\ Goto(t, Submission(t))
              /\ UNCHANGED <<at, got, answer>>
            BY <2>1 DEF TakeJob
        <3>2. Head(jobs[c]) \in Refs
            BY <1>1, <1>2, <2>1, TailProperties DEF QueuesTyped
        <3>3. Submission(t) \in Labels
            BY DEF Submission, Labels
        <3> QED
            BY <1>1, <1>3, <3>1, <3>2, <3>3 DEF ThreadsTyped, Goto
    <2>2. CASE TakeJob(t) /\ jobs[c] = <<>>
        BY <1>4, <2>2 DEF TakeJob, Labels, Busy
    <2>3. CASE PutResult(t)
        BY <1>4, <2>3 DEF PutResult, Labels, Busy
    <2> QED
        BY <1>10, <2>1, <2>2, <2>3 DEF TransferWorker
<1>11. CASE t[2] = 0 /\ InitiateTransfer(c)
    <2>1. CASE AttemptTransfer(c)
        <3>1. UNCHANGED <<job, got>>
            BY <2>1 DEF AttemptTransfer
        <3>2. CASE Goto(Main(c), Submission(Main(c))) /\ UNCHANGED <<at, answer>>
            <4>1. Submission(Main(c)) \in Labels
                BY DEF Submission, Labels
            <4> QED
                BY <1>2, <1>4, <3>1, <3>2, <4>1
        <3> QED
            BY <1>7, <1>11, <2>1, <3>1, <3>2 DEF AttemptTransfer, InitiateTransfer
    <2>2. CASE RecordOutcome(c)
        <3>1. UNCHANGED <<job, got>> /\ (TryNext(c) \/ (UNCHANGED at /\ Return(c, got[Main(c)])))
            BY <2>2 DEF RecordOutcome
        <3>2. got[Main(c)] \in {"none", "ok", "refused", "error"}
            BY <1>1, <1>2 DEF ThreadsTyped
        <3> QED
            BY <1>6, <1>7, <1>11, <3>1, <3>2 DEF InitiateTransfer
    <2> QED
        BY <1>11, <2>1, <2>2 DEF InitiateTransfer
<1>12. CASE t[2] = 0 /\ Enquire(c)
    <2>1. UNCHANGED <<job, got>>
        BY <1>12 DEF Enquire
    <2>2. CASE Goto(Main(c), Submission(Main(c))) /\ UNCHANGED <<at, answer>>
        <3>1. Submission(Main(c)) \in Labels
            BY DEF Submission, Labels
        <3> QED
            BY <1>2, <1>4, <2>1, <2>2, <3>1
    <2> QED
        BY <1>7, <1>12, <2>1, <2>2 DEF Enquire
<1>13. CASE t[2] = 0 /\ AttemptEnquiry(c)
    BY <1>6, <1>7, <1>13 DEF AttemptEnquiry
<1>14. CASE t[2] = 0 /\ BulkTransfer(c)
    <2>1. CASE InitiateBulkTransfer(c)
        <3>1. UNCHANGED <<at, job, got, answer>>
            BY <2>1 DEF InitiateBulkTransfer
        <3>2. CASE StartPool(c, Items(c))
            BY <1>8, <3>1, <3>2
        <3>3. CASE \E label \in Labels : Goto(Main(c), label)
            BY <1>2, <1>4, <3>1, <3>3
        <3> QED
            BY <2>1, <3>2, <3>3 DEF InitiateBulkTransfer, Labels
    <2>2. CASE NativeBulk(c)
        <3>1. PICK o \in NativeOutcomes(ToSet(Items(c))) : Return(c, o.status)
            BY <2>2 DEF NativeBulk
        <3>2. o.status \in {"processing", "failed", "error"}
            BY DEF NativeOutcomes
        <3> QED
            BY <1>6, <2>2, <3>1, <3>2 DEF NativeBulk
    <2>3. CASE SplitAndProcessBulk(c)
        <3>1. UNCHANGED <<at, job, got>>
            BY <2>3 DEF SplitAndProcessBulk
        <3>2. AggregateBulkResults(results[c]) \in {"complete", "partial", "failed"}
            BY DEF AggregateBulkResults
        <3>3. CASE Return(c, AggregateBulkResults(results[c]))
            BY <1>6, <3>1, <3>2, <3>3
        <3>4. CASE UNCHANGED <<pc, answer>>
            BY <1>1, <1>3, <3>1, <3>4 DEF ThreadsTyped
        <3>5. CASE StartPool(c, Chunk(c)) /\ UNCHANGED answer
            BY <1>8, <3>1, <3>5
        <3> QED
            BY <2>3, <3>3, <3>4, <3>5 DEF SplitAndProcessBulk
    <2>4. CASE CollectResults(c)
        <3>1. UNCHANGED <<at, job, got>>
            BY <2>4 DEF CollectResults
        <3>2. AggregateBulkResults(channel[c]) \in {"complete", "partial", "failed"}
            BY DEF AggregateBulkResults
        <3>3. "chunk" \in Labels
            BY DEF Labels
        <3> QED
            BY <1>2, <1>4, <1>6, <2>4, <3>1, <3>2, <3>3 DEF CollectResults
    <2> QED
        BY <1>14, <2>1, <2>2, <2>3, <2>4 DEF BulkTransfer
<1>15. CASE t[2] = 0 /\ LegacyTransfer(c)
    <2>1. CASE CreateRecord(c)
        <3>1. Submission(Main(c)) \in Labels
            BY DEF Submission, Labels
        <3> QED
            BY <1>2, <1>4, <1>6, <2>1, <3>1 DEF CreateRecord
    <2>2. CASE FinishRecord(c)
        BY <1>6, <2>2 DEF FinishRecord
    <2> QED
        BY <1>15, <2>1, <2>2 DEF LegacyTransfer
<1> QED
    BY <1>9, <1>10, <1>11, <1>12, <1>13, <1>14, <1>15 DEF Step

LEMMA QueuesStep ==
    ASSUME TypeInv, NEW t \in Threads, Step(t)
    PROVE  QueuesTyped'
<1> DEFINE c == t[1]
<1>1. FixedTyped /\ SharedTyped /\ ThreadsTyped /\ QueuesTyped
    BY TypeParts
<1>2. c \in Calls /\ chain' = chain /\ req' = req /\ req \in Workloads
    BY <1>1, ThreadsOfCalls, StepKeepsRequests DEF FixedTyped
<1>3. \A d \in Calls : Capacity(d)' = Capacity(d) /\ Capacity(d) \in Nat
    BY <1>2, CapacityTyped DEF Capacity, IsSplit, Default, Items
<1>4. Items(c) \in Seq(Refs) /\ rest[c] \in Seq(Refs)
    BY <1>1, <1>2, ItemsTyped DEF QueuesTyped
<1>5. Chunk(c) \in Seq(Refs) /\ Beyond(c) \in Seq(Refs)
    <2> DEFINE n == IF Len(rest[c]) < MaxBatch THEN Len(rest[c]) ELSE MaxBatch
    <2>1. n \in 0 .. Len(rest[c])
        BY <1>4, ProvidersAssumption
    <2>2. Chunk(c) \in Seq(Refs) /\ Len(Chunk(c)) = n
        BY <1>4, <2>1, CutProperties DEF Chunk
    <2> QED
        BY <1>4, <2>1, <2>2, CutProperties DEF Beyond
<1>6. ASSUME UNCHANGED bulkVars PROVE QueuesTyped'
    BY <1>1, <1>3, <1>6 DEF QueuesTyped, bulkVars
<1>7. ASSUME NEW refs \in Seq(Refs), StartPool(c, refs), UNCHANGED results,
             rest' \in [Calls -> Seq(Refs)]
      PROVE  QueuesTyped'
    <2>1. jobs' \in [Calls -> Seq(Refs)]
        BY <1>1, <1>7 DEF QueuesTyped, StartPool
    <2>2. channel' \in [Calls -> Seq(ResultType)]
        <3>1. <<>> \in Seq(ResultType)
            OBVIOUS
        <3> QED
            BY <1>1, <1>7, <3>1 DEF QueuesTyped, StartPool
    <2>3. \A d \in Calls : Len(channel'[d]) <= Capacity(d)'
        <3>1. Len(<<>>) = 0
            OBVIOUS
        <3> QED
            BY <1>1, <1>3, <1>7, <3>1 DEF QueuesTyped, StartPool
    <2> QED
        BY <1>1, <1>7, <2>1, <2>2, <2>3 DEF QueuesTyped
<1>8. ASSUME NEW s \in Seq(Refs), NEW o \in NativeOutcomes(ToSet(s))
      PROVE  Reported(o) \in Seq(ResultType)
    BY <1>8, ElementsAreFinite, ReportedTyped
<1>9. CASE TransferWorker(t)
    <2>1. CASE TakeJob(t)
        <3>1. UNCHANGED <<channel, rest, results>> /\ jobs[c] \in Seq(Refs)
            BY <1>1, <1>2, <2>1 DEF TakeJob, QueuesTyped
        <3>2. jobs' = jobs \/ (jobs[c] # <<>> /\ jobs' = [jobs EXCEPT ![c] = Tail(@)])
            BY <2>1 DEF TakeJob
        <3>3. jobs[c] # <<>> => Tail(jobs[c]) \in Seq(Refs)
            BY <3>1, TailProperties
        <3>4. jobs' \in [Calls -> Seq(Refs)]
            BY <1>1, <1>2, <3>2, <3>3 DEF QueuesTyped
        <3> QED
            BY <1>1, <1>3, <3>1, <3>4 DEF QueuesTyped
    <2>2. CASE PutResult(t)
        <3> DEFINE r == Result(job[t], got[t] = "ok")
        <3>1. /\ UNCHANGED <<jobs, rest, results>> /\ Len(channel[c]) < Capacity(c)
              /\ channel' = [channel EXCEPT ![c] = Append(@, r)]
            BY <2>2 DEF PutResult
        <3>2. pc[t] \in Busy
            BY <2>2 DEF PutResult, Busy
        <3>3. r \in ResultType
            <4>1. job[t] \in Refs
                BY <1>1, <3>2, SubmitterHasJob
            <4>2. (got[t] = "ok") \in BOOLEAN
                OBVIOUS
            <4> QED
                BY <4>1, <4>2, Zenon DEF Result, ResultType
        <3>4. channel[c] \in Seq(ResultType)
            BY <1>1, <1>2 DEF QueuesTyped
        <3> HIDE DEF r
        <3>5. Append(channel[c], r) \in Seq(ResultType) /\ Len(Append(channel[c], r)) = Len(channel[c]) + 1
              /\ Len(channel[c]) \in Nat
            BY <3>3, <3>4
        <3>6. channel' \in [Calls -> Seq(ResultType)]
            BY <1>1, <3>1, <3>5 DEF QueuesTyped
        <3>7. \A d \in Calls : Len(channel'[d]) <= Capacity(d)
            BY <1>1, <1>2, <1>3, <3>1, <3>5 DEF QueuesTyped
        <3> QED
            BY <1>1, <1>3, <3>1, <3>6, <3>7 DEF QueuesTyped
    <2> QED
        BY <1>9, <2>1, <2>2 DEF TransferWorker
<1>10. CASE InitiateBulkTransfer(c)
    <2>1. UNCHANGED results /\ rest' \in [Calls -> Seq(Refs)]
        BY <1>1, <1>4, <1>10 DEF InitiateBulkTransfer, QueuesTyped
    <2>2. CASE StartPool(c, Items(c))
        BY <1>4, <1>7, <2>1, <2>2
    <2>3. CASE UNCHANGED <<jobs, channel>>
        BY <1>1, <1>3, <2>1, <2>3 DEF QueuesTyped
    <2> QED
        BY <1>10, <2>2, <2>3 DEF InitiateBulkTransfer
<1>11. CASE NativeBulk(c)
    <2>1. PICK o \in NativeOutcomes(ToSet(Items(c))) : results' = [results EXCEPT ![c] = Reported(o)]
        BY <1>11 DEF NativeBulk
    <2>2. results' \in [Calls -> Seq(ResultType)]
        BY <1>1, <1>4, <1>8, <2>1 DEF QueuesTyped
    <2> QED
        BY <1>1, <1>3, <1>11, <2>2 DEF NativeBulk, QueuesTyped
<1>12. CASE SplitAndProcessBulk(c)
    <2>1. rest' \in [Calls -> Seq(Refs)]
        BY <1>1, <1>5, <1>12 DEF SplitAndProcessBulk, QueuesTyped
    <2>2. CASE UNCHANGED <<jobs, channel>> /\ results' \in [Calls -> Seq(ResultType)]
        BY <1>1, <1>3, <2>1, <2>2 DEF QueuesTyped
    <2>3. CASE StartPool(c, Chunk(c)) /\ UNCHANGED results
        BY <1>5, <1>7, <2>1, <2>3
    <2>4. ASSUME NEW o \in NativeOutcomes(ToSet(Chunk(c))), results' = [results EXCEPT ![c] = @ \o Reported(o)]
          PROVE  results' \in [Calls -> Seq(ResultType)]
        <3>1. Reported(o) \in Seq(ResultType) /\ results[c] \in Seq(ResultType)
            BY <1>1, <1>2, <1>5, <1>8 DEF QueuesTyped
        <3>2. results[c] \o Reported(o) \in Seq(ResultType)
            BY <3>1, ConcatProperties
        <3> QED
            BY <1>1, <2>4, <3>2 DEF QueuesTyped
    <2>5. UNCHANGED results => results' \in [Calls -> Seq(ResultType)]
        BY <1>1 DEF QueuesTyped
    <2> QED
        BY <1>12, <2>2, <2>3, <2>4, <2>5 DEF SplitAndProcessBulk
<1>13. CASE CollectResults(c)
    <2>1. results[c] \o channel[c] \in Seq(ResultType)
        BY <1>1, <1>2, ConcatProperties DEF QueuesTyped
    <2>2. results' \in [Calls -> Seq(ResultType)]
        BY <1>1, <1>13, <2>1 DEF CollectResults, QueuesTyped
    <2> QED
        BY <1>1, <1>3, <1>13, <2>2 DEF CollectResults, QueuesTyped
<1> QED
    BY <1>6, <1>9, <1>10, <1>11, <1>12, <1>13 DEF Step, Submit, InitiateTransfer, AttemptTransfer,
        RecordOutcome, Enquire, AttemptEnquiry, BulkTransfer, LegacyTransfer, CreateRecord, FinishRecord

LEMMA TypesInit == Init => TypeInv
<1> SUFFICES ASSUME Init PROVE TypeInv
    OBVIOUS
<1>1. FixedTyped
    BY DEF Init, FixedTyped
<1>2. SharedTyped
    <2>1. NewBreaker \in BreakerType
        BY DEF NewBreaker, BreakerType
    <2>2. faults \in 0 .. MaxFaults /\ hurt \subseteq Calls /\ issued \in Nat
        BY ProvidersAssumption DEF Init
    <2> QED
        BY <2>1, <2>2 DEF Init, SharedTyped
<1>3. chain \in Seq(Names) /\ Len(chain) \in Nat \ {0}
    BY <1>1, ChainTyped DEF FixedTyped
<1>4. \A t \in Threads : t[1] \in Calls /\ Head(req[t[1]].refs) \in Refs
          /\ req[t[1]].op \in {"single", "bulk", "legacy", "enquiry", "idle"}
    BY <1>1, ItemsTyped, ThreadsOfCalls DEF FixedTyped, Items, Op
<1>5. ThreadsTyped
    <2>1. pc \in [Threads -> Labels]
        BY <1>4 DEF Init, Start, Labels
    <2>2. at \in [Calls -> 1 .. Len(chain)]
        BY <1>3 DEF Init
    <2>3. job \in [Threads -> Refs \cup {NoRef}]
        BY <1>4 DEF Init
    <2>4. \A t \in Threads : t[2] = 0 \/ pc[t] \in Busy => job[t] \in Refs
        BY <1>4 DEF Init, Busy
    <2> QED
        BY <2>1, <2>2, <2>3, <2>4 DEF Init, ThreadsTyped
<1>6. QueuesTyped
    <2>1. \A S : <<>> \in Seq(S) /\ Len(<<>>) = 0
        OBVIOUS
    <2>2. \A c \in Calls : Capacity(c) \in Nat
        BY <1>1, CapacityTyped DEF FixedTyped
    <2> QED
        BY <2>1, <2>2 DEF Init, QueuesTyped
<1> QED
    BY <1>1, <1>2, <1>5, <1>6, TypeParts

LEMMA TypesStep == TypeInv /\ [Next]_vars => TypeInv'
<1> SUFFICES ASSUME TypeInv, [Next]_vars PROVE TypeInv'
    OBVIOUS
<1>1. ASSUME NEW t \in Threads, Step(t) PROVE TypeInv'
    <2>1. FixedTyped'
        BY <1>1, StepKeepsRequests, TypeParts DEF FixedTyped
    <2>2. SharedTyped' /\ ThreadsTyped' /\ QueuesTyped'
        BY <1>1, SharedStep, ThreadsStep, QueuesStep
    <2> QED
        BY <2>1, <2>2 DEF FixedTyped, SharedTyped, ThreadsTyped, QueuesTyped, TypeInv, TypeOK
<1>2. ASSUME UNCHANGED <<callVars, token, issued, taken, legacyVars, pc, at, job, got, bulkVars,
                         answer, faults, hurt>>,
             breaker' \in [Names -> BreakerType]
      PROVE  TypeInv'
    BY <1>2 DEF TypeInv, TypeOK, callVars, legacyVars, bulkVars, Capacity, IsSplit, Default, Items
<1>3. ASSUME NEW p \in Names, CoolDown(p) PROVE TypeInv'
    <2>1. breaker' \in [Names -> BreakerType]
        BY <1>3, BreakerTyped DEF CoolDown, TypeInv, TypeOK
    <2> QED
        BY <1>2, <1>3, <2>1 DEF CoolDown, NoFault
<1>4. CASE UNCHANGED vars
    BY <1>2, <1>4 DEF vars, TypeInv, TypeOK, callVars, legacyVars, bulkVars
<1> QED
    BY <1>1, <1>3, <1>4 DEF Next

\* Every variable keeps its type, and no channel of a pool of workers holds more results than
\* it has room for (executeBulkAsConcurrentSingles makes it as large as the batch).
THEOREM TypeCorrect == Spec => []TypeOK
<1>1. TypeInv => TypeOK
    BY DEF TypeInv
<1> QED
    BY <1>1, TypesInit, TypesStep, PTL DEF Spec

-----------------------------------------------------------------------------
(* What calls return *)

\* What the providers have taken from call c for reference r if its transfer ended so.
TookAs(c, r, ending) ==
    IF ending = "ok" THEN \E p \in Names : TakenFrom(c, r) = {p} ELSE TakenFrom(c, r) = {}

\* How far a single transfer knows that it ended.
Ending(c) ==
    CASE pc[Main(c)] = "sent" -> got[Main(c)]
      [] pc[Main(c)] = "done" -> answer[c]
      [] OTHER -> "none"

SingleCall(c) ==
    /\ job[Main(c)] = Ref(c)
    /\ \A t \in Pool(c) : pc[t] = "idle"
    /\ pc[Main(c)] \in {"allow", "token", "fetch", "send", "sent", "done"}
    /\ pc[Main(c)] # "done" => answer[c] = "none"
    /\ c \notin hurt => TookAs(c, Ref(c), Ending(c))

\* The course of a bulk call and its workers.
Course(c) ==
    /\ pc[Main(c)] \in {"dispatch", "native", "chunk", "wait", "done"}
    /\ \A t \in Pool(c) :
           IF pc[Main(c)] = "wait"
           THEN pc[t] \in {"take", "exited"} \cup Busy /\ (pc[t] = "exited" => jobs[c] = <<>>)
           ELSE pc[t] \in {"idle", "exited"}
    /\ pc[Main(c)] \in {"dispatch", "wait"} => rest[c] = <<>>
    /\ pc[Main(c)] = "native" => rest[c] = Items(c)
    /\ pc[Main(c)] \in {"dispatch", "native"} => results[c] = <<>>
    /\ ~HasBulk(Default) => pc[Main(c)] \in {"dispatch", "wait", "done"}

\* Where the references of a bulk call are: still to do, in the hands of a worker, or with a
\* result.
Todo(c) ==
    CASE pc[Main(c)] = "dispatch" -> Items(c)
      [] pc[Main(c)] \in {"native", "chunk"} -> rest[c]
      [] pc[Main(c)] = "wait" -> jobs[c]
      [] OTHER -> <<>>
Hands(c) == {t \in Pool(c) : pc[t] \in Busy}
Log(c) == IF pc[Main(c)] = "wait" THEN results[c] \o channel[c] ELSE results[c]
Logged(c) == {Log(c)[i].ref : i \in DOMAIN Log(c)}

\* No reference is in two places.
Apart(c) ==
    /\ IsInjective(Todo(c))
    /\ \A t, u \in Hands(c) : job[t] = job[u] => t = u
    /\ \A i, j \in DOMAIN Log(c) : Log(c)[i].ref = Log(c)[j].ref => i = j
    /\ \A t \in Hands(c) : job[t] \notin ToSet(Todo(c)) \cup Logged(c)
    /\ ToSet(Todo(c)) \cap Logged(c) = {}

\* What is known of a reference, where it is, is what the providers did with it.
Truthful(c) ==
    /\ \A r \in ToSet(Todo(c)) : TakenFrom(c, r) = {}
    /\ \A t \in Hands(c) : pc[t] # "sent" => TakenFrom(c, job[t]) = {}
    /\ c \notin hurt =>
           /\ \A t \in Hands(c) : pc[t] = "sent" => (got[t] = "ok" <=> TakenFrom(c, job[t]) # {})
           /\ \A i \in DOMAIN Log(c) : Log(c)[i].success <=> TakenFrom(c, Log(c)[i].ref) # {}

\* Through a pool alone, no reference gets lost.
Complete(c) ==
    ~HasBulk(Default) =>
        ToSet(Items(c)) = ToSet(Todo(c)) \cup {job[t] : t \in Hands(c)} \cup Logged(c)

Placed(c) == Apart(c) /\ Truthful(c) /\ Complete(c)

\* A call of another kind collects no results.
NoResults(c) ==
    pc[Main(c)] \notin {"dispatch", "native", "chunk", "wait"} /\ results[c] = <<>>

BulkCall(c) == Course(c) /\ (IsInjective(Items(c)) => Placed(c))

AnswerInv ==
    \A c \in Calls :
        /\ Op(c) = "single" => SingleCall(c)
        /\ Op(c) = "bulk" => BulkCall(c)
        /\ Op(c) # "bulk" => NoResults(c)

\* What a step of another call leaves of a call.
KeepsCall(c) ==
    /\ \A t \in {Main(c)} \cup Pool(c) : pc'[t] = pc[t] /\ job'[t] = job[t] /\ got'[t] = got[t]
    /\ jobs'[c] = jobs[c] /\ channel'[c] = channel[c] /\ rest'[c] = rest[c]
    /\ results'[c] = results[c] /\ answer'[c] = answer[c]
    /\ c \notin hurt' => c \notin hurt

LEMMA OthersKeepCall ==
    ASSUME TypeInv, NEW t \in Threads, Step(t), NEW c \in Calls, c # t[1]
    PROVE  KeepsCall(c)
<1>1. /\ DOMAIN pc = Threads /\ DOMAIN job = Threads /\ DOMAIN got = Threads
      /\ DOMAIN jobs = Calls /\ DOMAIN channel = Calls /\ DOMAIN rest = Calls
      /\ DOMAIN results = Calls /\ DOMAIN answer = Calls
    BY DEF TypeInv, TypeOK
<1>2. /\ t \notin {Main(c)} \cup Pool(c) /\ Main(t[1]) \notin {Main(c)} \cup Pool(c)
      /\ {Main(c)} \cup Pool(c) \subseteq Threads /\ t[1] \in Calls
      /\ \A u \in {Main(c)} \cup Pool(c) : u \notin Pool(t[1])
    BY ThreadsOfCalls
<1> USE <1>1, <1>2
<1> USE DEF KeepsCall, Goto, Return, Fault, NoFault, callVars, bulkVars, legacyVars
<1>3. CASE Submit(t)
    BY <1>3 DEF Submit, GetAccessToken, FetchNewToken, SendTransfer, SendEnquiry
<1>4. CASE TransferWorker(t)
    BY <1>4 DEF TransferWorker, TakeJob, PutResult
<1>5. CASE InitiateTransfer(t[1])
    BY <1>5 DEF InitiateTransfer, AttemptTransfer, RecordOutcome, TryNext
<1>6. CASE Enquire(t[1]) \/ AttemptEnquiry(t[1])
    BY <1>6 DEF Enquire, AttemptEnquiry, TryNext
<1>7. CASE InitiateBulkTransfer(t[1])
    BY <1>7 DEF InitiateBulkTransfer, StartPool
<1>8. CASE NativeBulk(t[1])
    BY <1>8 DEF NativeBulk, Native
<1>9. CASE SplitAndProcessBulk(t[1])
    BY <1>9 DEF SplitAndProcessBulk, StartPool, Native
<1>10. CASE CollectResults(t[1])
    BY <1>10 DEF CollectResults
<1>11. CASE LegacyTransfer(t[1])
    BY <1>11 DEF LegacyTransfer, CreateRecord, FinishRecord
<1> QED
    BY <1>3, <1>4, <1>5, <1>6, <1>7, <1>8, <1>9, <1>10, <1>11 DEF Step, BulkTransfer

LEMMA TypesGiveShape == TypeInv => Shape
    BY DEF TypeInv, TypeOK, Shape

\* Only a step of a call adds to what the providers have taken from it.
LEMMA OthersTakeNothing ==
    ASSUME TypeInv, NEW t \in Threads, Step(t), NEW c \in Calls, c # t[1], NEW r \in Refs
    PROVE  TakenFrom(c, r)' = TakenFrom(c, r)
<1>1. Taking(t) /\ c # Nobody
    BY TypesGiveShape, StepTakes, ProvidersAssumption
<1> QED
    BY <1>1 DEF Taking, TakenFrom

\* A goroutine that sends its transfer learns what became of it, unless its call is hurt.
LEMMA TransferReply ==
    ASSUME TypeInv, NEW t \in Threads, SendTransfer(t), NEW r \in Refs, r = job[t]
    PROVE  /\ pc[t] = "send" /\ pc' = [pc EXCEPT ![t] = "sent"]
           /\ \A u \in Threads : u # t => got'[u] = got[u]
           /\ \A q \in Refs : q # r => TakenFrom(t[1], q)' = TakenFrom(t[1], q)
           /\ t[1] \notin hurt' => t[1] \notin hurt
           /\ t[1] \notin hurt' /\ TakenFrom(t[1], r) = {} => TookAs(t[1], r, got[t])'
<1> DEFINE c == t[1]
           target == Target(t)
<1>1. /\ target \in Names
      /\ \A reply \in Replies :
             /\ Prepared(t, reply) \in {"ok", "refused", "error"}
             /\ Transferred(t, reply) \in {"ok", "refused", "error"}
             /\ Transferred(t, reply) = "ok" <=> reply = "yes"
    BY TypeParts, TargetTyped, RepliesTyped DEF ThreadsTyped
<1>2. /\ DOMAIN got = Threads /\ DOMAIN taken = Names /\ \A p \in Names : DOMAIN taken[p] = Refs
      /\ c \in Calls /\ c # Nobody
    BY ThreadsOfCalls, ProvidersAssumption DEF TypeInv, TypeOK
<1>3. pc[t] = "send" /\ pc' = [pc EXCEPT ![t] = "sent"]
    BY DEF SendTransfer, Goto
<1>4. PICK preparation \in Replies, reply \in Replies :
           \/ /\ Prepared(t, preparation) # "ok"
              /\ got' = [got EXCEPT ![t] = Prepared(t, preparation)]
              /\ UNCHANGED taken
              /\ NoFault
           \/ /\ Prepared(t, preparation) = "ok"
              /\ got' = [got EXCEPT ![t] = Transferred(t, reply)]
              /\ \/ reply = "yes" /\ Takes(target, r, c) /\ NoFault
                 \/ reply # "yes" /\ UNCHANGED taken /\ NoFault
                 \/ reply = "unreadable" /\ Takes(target, r, c) /\ Fault(c)
    BY DEF SendTransfer
<1>5. \A u \in Threads : u # t => got'[u] = got[u]
    BY <1>2, <1>4
<1>6. ASSUME UNCHANGED taken
      PROVE  \A q : TakenFrom(c, q)' = TakenFrom(c, q)
    BY <1>6 DEF TakenFrom
<1> HIDE DEF target
<1>7. ASSUME Takes(target, r, c)
      PROVE  /\ \A q \in Refs : q # r => TakenFrom(c, q)' = TakenFrom(c, q)
             /\ TakenFrom(c, r) = {} => TakenFrom(c, r)' = {target}
    <2>1. taken' = [taken EXCEPT ![target][r] = c]
        BY <1>7 DEF Takes
    <2>2. \A p \in Names, q \in Refs :
              taken'[p][q] = IF p = target /\ q = r THEN c ELSE taken[p][q]
        BY <1>1, <1>2, <2>1
    <2> QED
        BY <1>1, <2>2 DEF TakenFrom
<1>8. CASE Prepared(t, preparation) # "ok" /\ got' = [got EXCEPT ![t] = Prepared(t, preparation)]
           /\ UNCHANGED taken /\ NoFault
    BY <1>2, <1>3, <1>5, <1>6, <1>8 DEF TookAs, NoFault
<1>9. CASE got' = [got EXCEPT ![t] = Transferred(t, reply)] /\ reply = "yes"
           /\ Takes(target, r, c) /\ NoFault
    BY <1>1, <1>2, <1>3, <1>5, <1>7, <1>9 DEF TookAs, NoFault
<1>10. CASE got' = [got EXCEPT ![t] = Transferred(t, reply)] /\ reply # "yes"
            /\ UNCHANGED taken /\ NoFault
    BY <1>1, <1>2, <1>3, <1>5, <1>6, <1>10 DEF TookAs, NoFault
<1>11. CASE Takes(target, r, c) /\ Fault(c)
    BY <1>3, <1>5, <1>7, <1>11 DEF Fault
<1> QED
    BY <1>4, <1>8, <1>9, <1>10, <1>11

\* The steps of a single transfer.
LEMMA SingleSteps ==
    ASSUME NEW t \in Threads, Step(t), Op(t[1]) = "single", SingleCall(t[1])
    PROVE  t = Main(t[1]) /\ (Submit(t) \/ InitiateTransfer(t[1]))
<1>1. t[1] \in Calls /\ (t = Main(t[1]) \/ t \in Pool(t[1])) /\ (t[2] = 0 <=> t = Main(t[1]))
    BY ThreadsOfCalls
<1>2. CASE t \in Pool(t[1])
    <2>1. pc[t] = "idle" /\ t[2] # 0
        BY <1>1, <1>2, ThreadsOfCalls DEF SingleCall
    <2> QED
        BY <2>1 DEF Step, Submit, GetAccessToken, FetchNewToken, SendTransfer, SendEnquiry,
            TransferWorker, TakeJob, PutResult
<1>3. CASE t = Main(t[1])
    <2>1. pc[Main(t[1])] \in {"allow", "token", "fetch", "send", "sent", "done"}
        BY DEF SingleCall
    <2> QED
        BY <1>1, <1>3, <2>1 DEF Step, TransferWorker, Enquire, AttemptEnquiry,
            BulkTransfer, InitiateBulkTransfer, NativeBulk, SplitAndProcessBulk, CollectResults,
            LegacyTransfer, CreateRecord, FinishRecord
<1> QED
    BY <1>1, <1>2, <1>3

LEMMA OwnSingleCall ==
    ASSUME TypeInv, NEW t \in Threads, Step(t), Op(t[1]) = "single", SingleCall(t[1])
    PROVE  SingleCall(t[1])'
<1> DEFINE c == t[1]
<1>1. /\ t = Main(c) /\ c \in Calls /\ (Submit(t) \/ InitiateTransfer(c))
      /\ \A u \in Pool(c) : u \in Threads /\ u # t
    BY SingleSteps, ThreadsOfCalls
<1>0. PICK r \in Refs : r = Ref(c)
    BY <1>1, TypeParts, ItemsTyped DEF FixedTyped, Ref
<1>2. UNCHANGED <<chain, req>> /\ Ref(c)' = r /\ Start[Op(c)] = "allow"
    BY <1>0, StepKeepsRequests DEF Ref, Items, Start
<1>3. /\ DOMAIN pc = Threads /\ DOMAIN got = Threads /\ DOMAIN answer = Calls
      /\ job[t] = r /\ (pc[t] # "done" => answer[c] = "none")
      /\ c \notin hurt => TookAs(c, r, Ending(c))
      /\ \A u \in Pool(c) : pc[u] = "idle"
    BY <1>0, <1>1 DEF TypeInv, TypeOK, SingleCall
<1>4. Submission(t) \in {"token", "send"}
    BY DEF Submission
<1>5. ASSUME UNCHANGED <<taken, job, hurt>>,
             NEW label \in {"allow", "token", "fetch", "send", "sent", "done"}, Goto(t, label),
             label # "done" => answer' = answer,
             pc[t] # "done",
             (label = "sent" /\ got'[t] # "ok") \/ (label = "done" /\ answer'[c] # "ok")
                 \/ label \notin {"sent", "done"},
             Ending(c) # "ok"
      PROVE  SingleCall(c)'
    <2>1. pc'[t] = label /\ \A u \in Pool(c) : pc'[u] = "idle"
        BY <1>1, <1>3, <1>5 DEF Goto
    <2>2. TakenFrom(c, r)' = TakenFrom(c, r)
        BY <1>2, <1>5 DEF TakenFrom
    <2>3. Ending(c)' # "ok"
        BY <1>1, <1>5, <2>1 DEF Ending
    <2>4. c \notin hurt' => TookAs(c, Ref(c), Ending(c))'
        BY <1>2, <1>3, <1>5, <2>2, <2>3 DEF TookAs
    <2>5. pc'[Main(c)] # "done" => answer'[c] = "none"
        BY <1>1, <1>3, <1>5, <2>1
    <2> QED
        BY <1>1, <1>2, <1>3, <1>5, <2>1, <2>4, <2>5 DEF SingleCall, Pool
<1>6. pc[t] \notin {"sent", "done"} => Ending(c) = "none"
    BY <1>1 DEF Ending
<1>7. CASE GetAccessToken(t) /\ UNCHANGED <<taken, job, hurt, answer>>
    <2>1. /\ pc[t] = "token"
          /\ Goto(t, "fetch") \/ Goto(t, "send")
        BY <1>7 DEF GetAccessToken
    <2> QED
        BY <1>5, <1>6, <1>7, <2>1
<1>8. CASE FetchNewToken(t) /\ UNCHANGED <<taken, job, hurt, answer>>
    <2>1. /\ pc[t] = "fetch"
          /\ Goto(t, "send") \/ (Goto(t, "sent") /\ got' = [got EXCEPT ![t] = "error"])
        BY <1>8 DEF FetchNewToken
    <2> QED
        BY <1>3, <1>5, <1>6, <1>8, <2>1
<1>9. CASE SendTransfer(t) /\ UNCHANGED <<job, answer>>
    <2>1. /\ pc[t] = "send" /\ pc' = [pc EXCEPT ![t] = "sent"]
          /\ c \notin hurt' => c \notin hurt
          /\ c \notin hurt' /\ TakenFrom(c, r) = {} => TookAs(c, r, got[t])'
        BY <1>2, <1>3, <1>9, TransferReply
    <2>2. Ending(c)' = got'[t] /\ Ending(c) = "none" /\ pc'[t] = "sent"
        BY <1>1, <1>3, <1>6, <2>1 DEF Ending
    <2>3. c \notin hurt' => TakenFrom(c, r) = {}
        BY <1>3, <2>1, <2>2 DEF TookAs
    <2>4. c \notin hurt' => TookAs(c, Ref(c), Ending(c))'
        BY <1>2, <2>1, <2>2, <2>3 DEF TookAs, TakenFrom
    <2> QED
        BY <1>1, <1>2, <1>3, <1>9, <2>1, <2>2, <2>4 DEF SingleCall, Pool
<1>10. ASSUME TryNext(c), UNCHANGED <<taken, job, hurt, got>>, pc[t] # "done", Ending(c) # "ok"
       PROVE  SingleCall(c)'
    <2>1. CASE Goto(t, "allow") /\ UNCHANGED answer
        BY <1>5, <1>10, <2>1
    <2>2. CASE Return(c, "error")
        <3>1. Goto(t, "done") /\ answer'[c] = "error"
            BY <1>1, <1>3, <2>2 DEF Return, Goto
        <3> QED
            BY <1>5, <1>10, <3>1
    <2> QED
        BY <1>1, <1>2, <1>10, <2>1, <2>2 DEF TryNext
<1>11. CASE AttemptTransfer(c)
    <2>1. pc[t] = "allow" /\ UNCHANGED <<taken, job, hurt, got>>
        BY <1>1, <1>11 DEF AttemptTransfer, NoFault
    <2>2. CASE Goto(t, Submission(t)) /\ UNCHANGED answer
        BY <1>4, <1>5, <1>6, <2>1, <2>2
    <2> QED
        BY <1>1, <1>6, <1>10, <1>11, <2>1, <2>2 DEF AttemptTransfer
<1>12. CASE RecordOutcome(c)
    <2>1. pc[t] = "sent" /\ UNCHANGED <<taken, job, hurt, got>> /\ Ending(c) = got[t]
        BY <1>1, <1>12 DEF RecordOutcome, NoFault, Ending
    <2>2. CASE got[t] = "error" /\ TryNext(c)
        BY <1>10, <2>1, <2>2
    <2>3. CASE Return(c, got[t])
        <3>1. pc' = [pc EXCEPT ![t] = "done"] /\ answer'[c] = got[t]
            BY <1>1, <1>3, <2>3 DEF Return
        <3>2. Ending(c)' = Ending(c) /\ pc'[t] = "done"
            BY <1>1, <1>3, <2>1, <3>1 DEF Ending
        <3>3. TakenFrom(c, r)' = TakenFrom(c, r)
            BY <2>1 DEF TakenFrom
        <3>4. c \notin hurt' => TookAs(c, Ref(c), Ending(c))'
            BY <1>2, <1>3, <2>1, <3>2, <3>3 DEF TookAs
        <3> QED
            BY <1>1, <1>2, <1>3, <2>1, <3>1, <3>2, <3>4 DEF SingleCall, Pool
    <2> QED
        BY <1>1, <1>12, <2>2, <2>3 DEF RecordOutcome
<1> QED
    BY <1>1, <1>7, <1>8, <1>9, <1>11, <1>12 DEF Submit, SendEnquiry, InitiateTransfer, NoFault

LEMMA OtherSingleCall ==
    ASSUME TypeInv, NEW t \in Threads, Step(t), NEW c \in Calls, c # t[1], SingleCall(c)
    PROVE  SingleCall(c)'
<1>1. KeepsCall(c) /\ UNCHANGED <<chain, req>>
    BY OthersKeepCall, StepKeepsRequests
<1>2. Ref(c)' = Ref(c) /\ Ref(c) \in Refs
    BY <1>1, TypeParts, ItemsTyped DEF FixedTyped, Ref, Items
<1>3. TakenFrom(c, Ref(c))' = TakenFrom(c, Ref(c))
    <2>1. \A r \in Refs : TakenFrom(c, r)' = TakenFrom(c, r)
        BY OthersTakeNothing
    <2> QED
        BY <1>2, <2>1 DEF TakenFrom
<1>4. Ending(c)' = Ending(c)
    BY <1>1 DEF Ending, KeepsCall
<1>5. TookAs(c, Ref(c), Ending(c)) => TookAs(c, Ref(c), Ending(c))'
    BY <1>3, <1>4 DEF TookAs
<1> QED
    BY <1>1, <1>2, <1>5 DEF SingleCall, KeepsCall, Pool

\* The steps of a bulk call.
LEMMA BulkSteps ==
    ASSUME NEW t \in Threads, Step(t), Op(t[1]) = "bulk", Course(t[1])
    PROVE  \/ t \in Pool(t[1]) /\ pc[Main(t[1])] = "wait" /\ (Submit(t) \/ TransferWorker(t))
           \/ t = Main(t[1]) /\ BulkTransfer(t[1])
<1>1. t[1] \in Calls /\ (t = Main(t[1]) \/ t \in Pool(t[1])) /\ (t[2] = 0 <=> t = Main(t[1]))
    BY ThreadsOfCalls
<1>2. CASE t \in Pool(t[1])
    <2>1. t[2] # 0
        BY <1>1, <1>2, ThreadsOfCalls
    <2>2. Submit(t) \/ TransferWorker(t)
        BY <2>1 DEF Step
    <2>3. pc[t] \notin {"idle", "exited"}
        BY <2>2 DEF Submit, GetAccessToken, FetchNewToken, SendTransfer, SendEnquiry,
            TransferWorker, TakeJob, PutResult
    <2> QED
        BY <1>2, <2>2, <2>3 DEF Course
<1>3. CASE t = Main(t[1])
    <2>1. pc[t] \in {"dispatch", "native", "chunk", "wait", "done"}
        BY <1>3 DEF Course
    <2>2. ~Submit(t) /\ ~TransferWorker(t)
        BY <1>1, <1>3, <2>1 DEF Submit, GetAccessToken, FetchNewToken, SendTransfer, SendEnquiry,
            TransferWorker
    <2> QED
        BY <1>1, <1>3, <2>1, <2>2 DEF Step, InitiateTransfer, Enquire, AttemptEnquiry,
            LegacyTransfer, CreateRecord, FinishRecord
<1> QED
    BY <1>1, <1>2, <1>3

\* A chunk too small for a native call is all there is.
LEMMA ChunkProperties ==
    ASSUME NEW c \in Calls, rest[c] \in Seq(Refs)
    PROVE  /\ Chunk(c) \in Seq(Refs) /\ Beyond(c) \in Seq(Refs)
           /\ ToSet(Chunk(c)) \subseteq ToSet(rest[c]) /\ ToSet(Beyond(c)) \subseteq ToSet(rest[c])
           /\ IsInjective(rest[c]) =>
                  IsInjective(Beyond(c)) /\ ToSet(Chunk(c)) \cap ToSet(Beyond(c)) = {}
           /\ Len(Chunk(c)) < MinBatch => Chunk(c) = rest[c] /\ Beyond(c) = <<>>
<1> DEFINE n == IF Len(rest[c]) < MaxBatch THEN Len(rest[c]) ELSE MaxBatch
<1>1. n \in 0 .. Len(rest[c]) /\ Len(rest[c]) \in Nat
    BY ProvidersAssumption
<1>2. Chunk(c) = SubSeq(rest[c], 1, n)
    BY DEF Chunk
<1>3. Len(Chunk(c)) = n
    BY <1>1, <1>2, CutProperties
<1>4. Beyond(c) = SubSeq(rest[c], n + 1, Len(rest[c]))
    BY <1>3 DEF Beyond
<1>5. ASSUME Len(Chunk(c)) < MinBatch PROVE Chunk(c) = rest[c] /\ Beyond(c) = <<>>
    <2>1. n = Len(rest[c])
        BY <1>1, <1>3, <1>5, ProvidersAssumption
    <2> HIDE DEF n
    <2>2. Chunk(c) = rest[c]
        BY <1>2, <2>1, SubSeqFull
    <2>3. Beyond(c) = <<>>
        BY <1>1, <1>4, <2>1, SubSeqEmpty
    <2> QED
        BY <2>2, <2>3
<1> HIDE DEF n
<1>6. /\ Chunk(c) \in Seq(Refs) /\ Beyond(c) \in Seq(Refs)
      /\ ToSet(Chunk(c)) \subseteq ToSet(rest[c]) /\ ToSet(Beyond(c)) \subseteq ToSet(rest[c])
      /\ IsInjective(rest[c]) =>
             IsInjective(Beyond(c)) /\ ToSet(Chunk(c)) \cap ToSet(Beyond(c)) = {}
    BY <1>1, <1>2, <1>4, CutProperties
<1> QED
    BY <1>5, <1>6

LEMMA OwnCourse ==
    ASSUME TypeInv, NEW t \in Threads, Step(t), Op(t[1]) = "bulk", Course(t[1])
    PROVE  Course(t[1])'
<1> DEFINE c == t[1]
<1>1. /\ c \in Calls /\ Main(c) \in Threads /\ Pool(c) \subseteq Threads /\ Main(c) \notin Pool(c)
      /\ DOMAIN pc = Threads /\ DOMAIN rest = Calls /\ DOMAIN results = Calls /\ DOMAIN jobs = Calls
      /\ rest[c] \in Seq(Refs)
    BY ThreadsOfCalls DEF TypeInv, TypeOK
<1>2. UNCHANGED <<chain, req>> /\ Items(c)' = Items(c) /\ Default' = Default /\ Pool(c)' = Pool(c)
    BY StepKeepsRequests DEF Items, Default, Pool
<1>3. ASSUME t \in Pool(c), pc[Main(c)] = "wait", pc[t] \in Busy \cup {"take"},
             NEW label \in {"take", "exited"} \cup Busy, Goto(t, label),
             UNCHANGED <<rest, results>>, jobs[c] = <<>> => jobs'[c] = <<>>,
             label = "exited" => jobs'[c] = <<>>
      PROVE  Course(c)'
    <2>1. pc'[t] = label /\ \A u \in Threads : u # t => pc'[u] = pc[u]
        BY <1>1, <1>3 DEF Goto
    <2> QED
        BY <1>1, <1>2, <1>3, <2>1 DEF Course
<1>4. CASE t \in Pool(c) /\ pc[Main(c)] = "wait" /\ Submit(t)
    <2>1. UNCHANGED <<rest, results, jobs>> /\ pc[t] \in Busy
        BY <1>4 DEF Submit, bulkVars, GetAccessToken, FetchNewToken, SendTransfer, SendEnquiry, Busy
    <2>2. Goto(t, "fetch") \/ Goto(t, "send") \/ Goto(t, "sent")
        BY <1>4 DEF Submit, GetAccessToken, FetchNewToken, SendTransfer, SendEnquiry
    <2> QED
        BY <1>3, <1>4, <2>1, <2>2 DEF Busy
<1>5. CASE t \in Pool(c) /\ pc[Main(c)] = "wait" /\ TransferWorker(t)
    <2>1. CASE TakeJob(t)
        <3>1. /\ UNCHANGED <<rest, results>> /\ pc[t] = "take"
              /\ \/ jobs[c] # <<>> /\ Goto(t, Submission(t))
                 \/ jobs[c] = <<>> /\ jobs' = jobs /\ Goto(t, "exited")
            BY <2>1 DEF TakeJob
        <3>2. Submission(t) \in Busy /\ "exited" \notin Busy
            BY DEF Submission, Busy
        <3> QED
            BY <1>3, <1>5, <3>1, <3>2
    <2>2. CASE PutResult(t)
        BY <1>3, <1>5, <2>2 DEF PutResult, Busy
    <2> QED
        BY <1>5, <2>1, <2>2 DEF TransferWorker
<1>6. ASSUME NEW label \in {"native", "chunk", "done"}, Goto(Main(c), label), pc[Main(c)] # "done",
             \A u \in Pool(c) : pc[u] \in {"idle", "exited"},
             label = "native" => rest'[c] = Items(c) /\ results'[c] = <<>>,
             label = "done" \/ HasBulk(Default)
      PROVE  Course(c)'
    <2>1. pc'[Main(c)] = label /\ \A u \in Pool(c) : pc'[u] = pc[u]
        BY <1>1, <1>6 DEF Goto
    <2> QED
        BY <1>2, <1>6, <2>1 DEF Course
<1>7. ASSUME NEW refs, StartPool(c, refs), rest'[c] = <<>>
      PROVE  Course(c)'
    <2>1. pc'[Main(c)] = "wait" /\ \A u \in Pool(c) : pc'[u] = "take"
        BY <1>1, <1>7 DEF StartPool
    <2> QED
        BY <1>2, <1>7, <2>1 DEF Course
<1>8. ASSUME NEW a, Return(c, a) PROVE Goto(Main(c), "done")
    BY <1>8 DEF Return, Goto
<1>9. CASE InitiateBulkTransfer(c)
    <2>1. /\ pc[Main(c)] = "dispatch" /\ rest[c] = <<>> /\ results'[c] = <<>>
          /\ \A u \in Pool(c) : pc[u] \in {"idle", "exited"}
        BY <1>9 DEF InitiateBulkTransfer, Course
    <2>2. CASE StartPool(c, Items(c)) /\ UNCHANGED rest
        BY <1>7, <2>1, <2>2
    <2>3. CASE rest' = [rest EXCEPT ![c] = Items(c)] /\ HasBulk(Default)
               /\ (Goto(Main(c), "native") \/ Goto(Main(c), "chunk"))
        BY <1>1, <1>6, <2>1, <2>3
    <2> QED
        BY <1>9, <2>2, <2>3 DEF InitiateBulkTransfer
<1>10. CASE NativeBulk(c)
    <2>1. Goto(Main(c), "done") /\ pc[Main(c)] = "native"
        BY <1>8, <1>10 DEF NativeBulk
    <2> QED
        BY <1>6, <2>1 DEF Course
<1>11. CASE SplitAndProcessBulk(c)
    <2>1. /\ pc[Main(c)] = "chunk" /\ HasBulk(Default) /\ rest'[c] = Beyond(c)
          /\ \A u \in Pool(c) : pc[u] \in {"idle", "exited"}
        BY <1>1, <1>11 DEF SplitAndProcessBulk, Course
    <2>2. CASE Goto(Main(c), "done")
        BY <1>6, <2>1, <2>2
    <2>3. CASE UNCHANGED pc
        BY <1>2, <2>1, <2>3 DEF Course
    <2>4. CASE StartPool(c, Chunk(c)) /\ Len(Chunk(c)) \in 1 .. MinBatch - 1
        <3>1. Len(Chunk(c)) < MinBatch
            BY <2>4, ProvidersAssumption
        <3>2. rest'[c] = <<>>
            BY <1>1, <2>1, <3>1, ChunkProperties
        <3> QED
            BY <1>7, <2>4, <3>2
    <2> QED
        BY <1>8, <1>11, <2>2, <2>3, <2>4 DEF SplitAndProcessBulk
<1>12. CASE CollectResults(c)
    <2>1. pc[Main(c)] = "wait" /\ \A u \in Pool(c) : pc[u] \in {"idle", "exited"}
        BY <1>12 DEF CollectResults
    <2>2. (Goto(Main(c), "chunk") /\ HasBulk(Default)) \/ Goto(Main(c), "done")
        BY <1>8, <1>12 DEF CollectResults, IsSplit
    <2> QED
        BY <1>6, <2>1, <2>2
<1> QED
    BY <1>4, <1>5, <1>9, <1>10, <1>11, <1>12, BulkSteps DEF BulkTransfer

LEMMA PlacesTyped ==
    ASSUME TypeInv, NEW c \in Calls
    PROVE  /\ Todo(c) \in Seq(Refs) /\ ToSet(Todo(c)) \subseteq Refs
           /\ Log(c) \in Seq(ResultType) /\ Logged(c) \subseteq Refs
           /\ \A i \in DOMAIN Log(c) : Log(c)[i].ref \in Logged(c)
           /\ \A t \in Hands(c) : t \in Threads /\ t[1] = c /\ job[t] \in Refs
           /\ Items(c) \in Seq(Refs)
<1>1. /\ Items(c) \in Seq(Refs) /\ rest[c] \in Seq(Refs) /\ jobs[c] \in Seq(Refs)
      /\ results[c] \in Seq(ResultType) /\ channel[c] \in Seq(ResultType)
    BY ItemsTyped DEF TypeInv, TypeOK
<1>2. Todo(c) \in Seq(Refs)
    BY <1>1 DEF Todo
<1>3. Log(c) \in Seq(ResultType)
    BY <1>1, ConcatProperties DEF Log
<1>4. \A i \in DOMAIN Log(c) : Log(c)[i] \in ResultType
    BY <1>3
<1>5. Logged(c) \subseteq Refs /\ \A i \in DOMAIN Log(c) : Log(c)[i].ref \in Logged(c)
    BY <1>4 DEF Logged, ResultType
<1>6. \A t \in Hands(c) : t \in Threads /\ t[1] = c /\ job[t] \in Refs
    BY ThreadsOfCalls DEF Hands, TypeInv
<1> QED
    BY <1>1, <1>2, <1>3, <1>5, <1>6, ElementsAreFinite

\* A step that moves no reference of a call and has nothing taken from it.
LEMMA QuietPlaces ==
    ASSUME TypeInv, NEW c \in Calls, Placed(c), UNCHANGED <<chain, req>>,
           Todo(c)' = Todo(c), Log(c)' = Log(c), Hands(c)' = Hands(c),
           \A t \in Hands(c) : job'[t] = job[t] /\ got'[t] = got[t] /\ (pc'[t] = "sent" <=> pc[t] = "sent"),
           \A r \in Refs : TakenFrom(c, r)' = TakenFrom(c, r),
           c \notin hurt' => c \notin hurt
    PROVE  Placed(c)'
<1>1. PICK todo \in Seq(Refs) : todo = Todo(c)
    BY PlacesTyped
<1>2. PICK log \in Seq(ResultType) : log = Log(c)
    BY PlacesTyped
<1>3. PICK hands : hands = Hands(c)
    OBVIOUS
<1>4. Todo(c)' = todo /\ Log(c)' = log /\ Hands(c)' = hands /\ Logged(c)' = Logged(c)
    BY <1>1, <1>2, <1>3 DEF Logged
<1>5. /\ \A r \in ToSet(todo) : r \in Refs
      /\ \A t \in hands : job[t] \in Refs
      /\ \A i \in DOMAIN log : log[i].ref \in Refs
    BY <1>1, <1>2, <1>3, PlacesTyped
<1>6. Apart(c)'
    BY <1>1, <1>2, <1>3, <1>4 DEF Placed, Apart
<1>7. Truthful(c)'
    <2>1. \A r \in ToSet(todo) : TakenFrom(c, r)' = {}
        BY <1>1, <1>5 DEF Placed, Truthful
    <2>2. \A u \in hands : TakenFrom(c, job[u])' = TakenFrom(c, job[u])
        <3> SUFFICES ASSUME NEW u \in hands PROVE TakenFrom(c, job[u])' = TakenFrom(c, job[u])
            OBVIOUS
        <3>1. PICK r \in Refs : r = job[u]
            BY <1>5
        <3>2. job'[u] = r
            BY <1>3, <3>1
        <3>3. TakenFrom(c, r)' = TakenFrom(c, r)
            OBVIOUS
        <3> QED
            BY <3>1, <3>2, <3>3 DEF TakenFrom
    <2>3. \A u \in hands : pc'[u] # "sent" => TakenFrom(c, job[u])' = {}
        BY <1>3, <2>2 DEF Placed, Truthful
    <2>4. c \notin hurt' => \A u \in hands : pc'[u] = "sent" =>
              (got'[u] = "ok" <=> TakenFrom(c, job[u])' # {})
        BY <1>3, <2>2 DEF Placed, Truthful
    <2>5. c \notin hurt' => \A i \in DOMAIN log : log[i].success <=> TakenFrom(c, log[i].ref)' # {}
        BY <1>2, <1>5 DEF Placed, Truthful
    <2> QED
        BY <1>4, <2>1, <2>3, <2>4, <2>5 DEF Truthful
<1>8. Complete(c)'
    BY <1>1, <1>2, <1>3, <1>4 DEF Placed, Complete, Items, Default
<1> QED
    BY <1>6, <1>7, <1>8 DEF Placed

LEMMA OtherBulkCall ==
    ASSUME TypeInv, NEW t \in Threads, Step(t), NEW c \in Calls, c # t[1], BulkCall(c)
    PROVE  BulkCall(c)'
<1>1. KeepsCall(c) /\ UNCHANGED <<chain, req>>
    BY OthersKeepCall, StepKeepsRequests
<1>2. Course(c)'
    BY <1>1 DEF BulkCall, Course, KeepsCall, Items, Default, Pool
<1>3. /\ Todo(c)' = Todo(c) /\ Log(c)' = Log(c) /\ Hands(c)' = Hands(c)
      /\ \A u \in Hands(c) : job'[u] = job[u] /\ got'[u] = got[u] /\ pc'[u] = pc[u]
      /\ c \notin hurt' => c \notin hurt
    BY <1>1 DEF KeepsCall, Todo, Log, Hands, Items, Pool
<1>4. \A r \in Refs : TakenFrom(c, r)' = TakenFrom(c, r)
    BY OthersTakeNothing
<1>5. Placed(c) => Placed(c)'
    BY <1>1, <1>3, <1>4, QuietPlaces
<1>6. Items(c)' = Items(c)
    BY <1>1 DEF Items
<1> QED
    BY <1>2, <1>5, <1>6 DEF BulkCall

-----------------------------------------------------------------------------
\* A worker learns how its transfer ended.
LEMMA EndingPlaces ==
    ASSUME TypeInv, NEW c \in Calls, Placed(c), UNCHANGED <<chain, req>>,
           Todo(c)' = Todo(c), Log(c)' = Log(c), Hands(c)' = Hands(c), UNCHANGED job,
           NEW t \in Hands(c), pc[t] # "sent", pc'[t] = "sent",
           \A u \in Hands(c) : u # t => pc'[u] = pc[u] /\ got'[u] = got[u],
           \A r \in Refs : r # job[t] => TakenFrom(c, r)' = TakenFrom(c, r),
           c \notin hurt' => c \notin hurt,
           c \notin hurt' => (got'[t] = "ok" <=> {p \in Names : taken'[p][job[t]] = c} # {})
    PROVE  Placed(c)'
<1>1. PICK todo \in Seq(Refs) : todo = Todo(c)
    BY PlacesTyped
<1>2. PICK log \in Seq(ResultType) : log = Log(c)
    BY PlacesTyped
<1>3. PICK hands : hands = Hands(c)
    OBVIOUS
<1>4. Todo(c)' = todo /\ Log(c)' = log /\ Hands(c)' = hands /\ Logged(c)' = Logged(c)
    BY <1>1, <1>2, <1>3 DEF Logged
<1>5. /\ \A r \in ToSet(todo) : r \in Refs /\ r # job[t]
      /\ \A u \in hands : job[u] \in Refs /\ (u # t => job[u] # job[t])
      /\ \A i \in DOMAIN log : log[i].ref \in Refs /\ log[i].ref # job[t]
    BY <1>1, <1>2, <1>3, PlacesTyped DEF Placed, Apart
<1>6. Apart(c)'
    BY <1>1, <1>2, <1>3, <1>4 DEF Placed, Apart
<1>7. Truthful(c)'
    <2>1. \A r \in ToSet(todo) : TakenFrom(c, r)' = {}
        BY <1>1, <1>5 DEF Placed, Truthful
    <2>2. \A u \in hands : u # t /\ pc'[u] # "sent" => TakenFrom(c, job[u])' = {}
        BY <1>3, <1>5 DEF Placed, Truthful
    <2>3. c \notin hurt' => \A u \in hands : u # t /\ pc'[u] = "sent" =>
              (got'[u] = "ok" <=> TakenFrom(c, job[u])' # {})
        BY <1>3, <1>5 DEF Placed, Truthful
    <2>4. c \notin hurt' => \A i \in DOMAIN log : log[i].success <=> TakenFrom(c, log[i].ref)' # {}
        BY <1>2, <1>5 DEF Placed, Truthful
    <2>5. TakenFrom(c, job[t])' = {p \in Names : taken'[p][job[t]] = c}
        BY DEF TakenFrom
    <2> QED
        BY <1>4, <2>1, <2>2, <2>3, <2>4, <2>5 DEF Truthful
<1>8. Complete(c)'
    BY <1>1, <1>2, <1>3, <1>4 DEF Placed, Complete, Items, Default
<1> QED
    BY <1>6, <1>7, <1>8 DEF Placed

LEMMA SubmitPlaces ==
    ASSUME TypeInv, NEW t \in Threads, Submit(t), t \in Pool(t[1]), pc[Main(t[1])] = "wait",
           Op(t[1]) = "bulk", Placed(t[1])
    PROVE  Placed(t[1])'
<1> DEFINE c == t[1]
<1>1. /\ c \in Calls /\ Main(c) \in Threads /\ Pool(c) \subseteq Threads /\ Main(c) \notin Pool(c)
      /\ DOMAIN pc = Threads /\ DOMAIN got = Threads
    BY ThreadsOfCalls DEF TypeInv, TypeOK
<1>2. UNCHANGED <<chain, req, job, jobs, channel, rest, results>>
    BY DEF Submit, callVars, bulkVars
<1>3. ASSUME NEW label \in Busy, Goto(t, label), pc[t] \in Busy
      PROVE  /\ Todo(c)' = Todo(c) /\ Log(c)' = Log(c) /\ Hands(c)' = Hands(c)
             /\ t \in Hands(c) /\ pc'[t] = label /\ \A u \in Threads : u # t => pc'[u] = pc[u]
    <2>1. pc'[t] = label /\ \A u \in Threads : u # t => pc'[u] = pc[u]
        BY <1>1, <1>3 DEF Goto
    <2>2. pc'[Main(c)] = pc[Main(c)]
        BY <1>1, <2>1
    <2> QED
        BY <1>1, <1>2, <1>3, <2>1, <2>2 DEF Todo, Log, Hands, Items, Pool
<1>4. UNCHANGED taken => \A r : TakenFrom(c, r)' = TakenFrom(c, r)
    BY DEF TakenFrom
<1>5. CASE /\ UNCHANGED <<taken, hurt, got>> /\ pc[t] \in {"token", "fetch"}
           /\ Goto(t, "fetch") \/ Goto(t, "send")
    <2>1. PICK label \in {"fetch", "send"} : Goto(t, label)
        BY <1>5
    <2>2. /\ Todo(c)' = Todo(c) /\ Log(c)' = Log(c) /\ Hands(c)' = Hands(c)
          /\ pc'[t] = label /\ \A u \in Threads : u # t => pc'[u] = pc[u]
        BY <1>3, <1>5, <2>1 DEF Busy
    <2>3. \A u \in Hands(c) : pc'[u] = "sent" <=> pc[u] = "sent"
        BY <1>1, <1>5, <2>2 DEF Hands
    <2> QED
        BY <1>1, <1>2, <1>4, <1>5, <2>2, <2>3, QuietPlaces
<1>6. CASE UNCHANGED <<taken, hurt>> /\ pc[t] = "fetch" /\ Goto(t, "sent") /\ got' = [got EXCEPT ![t] = "error"]
    <2>1. /\ Todo(c)' = Todo(c) /\ Log(c)' = Log(c) /\ Hands(c)' = Hands(c) /\ t \in Hands(c)
          /\ pc'[t] = "sent" /\ \A u \in Threads : u # t => pc'[u] = pc[u] /\ got'[u] = got[u]
        BY <1>1, <1>3, <1>6 DEF Busy
    <2>2. got'[t] # "ok" /\ {p \in Names : taken'[p][job[t]] = c} = {}
        BY <1>1, <1>6, <2>1 DEF Placed, Truthful, TakenFrom
    <2>3. \A u \in Hands(c) : u \in Threads
        BY <1>1 DEF Hands
    <2> QED
        BY <1>1, <1>2, <1>4, <1>6, <2>1, <2>2, <2>3, EndingPlaces
<1>7. CASE SendTransfer(t)
    <2>1. pc[t] = "send" /\ Goto(t, "sent")
        BY <1>7 DEF SendTransfer
    <2>2. /\ Todo(c)' = Todo(c) /\ Log(c)' = Log(c) /\ Hands(c)' = Hands(c) /\ t \in Hands(c)
          /\ pc'[t] = "sent" /\ \A u \in Threads : u # t => pc'[u] = pc[u]
        BY <1>3, <2>1 DEF Busy
    <2>3. PICK r \in Refs : r = job[t]
        BY <1>1, <2>2, PlacesTyped
    <2>4. /\ \A u \in Threads : u # t => got'[u] = got[u]
          /\ \A q \in Refs : q # r => TakenFrom(c, q)' = TakenFrom(c, q)
          /\ c \notin hurt' => c \notin hurt
          /\ c \notin hurt' /\ TakenFrom(c, r) = {} => TookAs(c, r, got[t])'
        BY <1>7, <2>3, TransferReply
    <2>5. TakenFrom(c, r) = {}
        BY <2>1, <2>2, <2>3 DEF Placed, Truthful
    <2>6. c \notin hurt' => (got'[t] = "ok" <=> {p \in Names : taken'[p][job[t]] = c} # {})
        BY <2>3, <2>4, <2>5 DEF TookAs, TakenFrom
    <2>7. \A u \in Hands(c) : u \in Threads
        BY <1>1 DEF Hands
    <2> QED
        BY <1>1, <1>2, <2>1, <2>2, <2>3, <2>4, <2>6, <2>7, EndingPlaces
<1> QED
    BY <1>5, <1>6, <1>7 DEF Submit, GetAccessToken, FetchNewToken, SendEnquiry, NoFault

LEMMA TakeJobPlaces ==
    ASSUME TypeInv, NEW t \in Threads, TakeJob(t), t \in Pool(t[1]), pc[Main(t[1])] = "wait",
           Placed(t[1])
    PROVE  Placed(t[1])'
<1> DEFINE c == t[1]
<1>1. /\ c \in Calls /\ Main(c) \in Threads /\ Pool(c) \subseteq Threads /\ Main(c) # t
      /\ DOMAIN pc = Threads /\ DOMAIN job = Threads /\ DOMAIN jobs = Calls
      /\ jobs[c] \in Seq(Refs) /\ pc[t] = "take"
      /\ UNCHANGED <<chain, req, taken, hurt, got, channel, rest, results>>
    BY ThreadsOfCalls DEF TypeInv, TypeOK, TakeJob, callVars, NoFault
<1>2. \A r : TakenFrom(c, r)' = TakenFrom(c, r)
    BY <1>1 DEF TakenFrom
<1>3. t \notin Hands(c)
    BY <1>1 DEF Hands, Busy
<1>4. CASE jobs[c] = <<>> /\ Goto(t, "exited") /\ UNCHANGED <<job, jobs>>
    <2>1. pc'[t] = "exited" /\ \A u \in Threads : u # t => pc'[u] = pc[u]
        BY <1>1, <1>4 DEF Goto
    <2>2. Todo(c)' = Todo(c) /\ Log(c)' = Log(c)
        BY <1>1, <1>4, <2>1 DEF Todo, Log, Items
    <2>3. Hands(c)' = Hands(c)
        BY <1>1, <1>3, <2>1 DEF Hands, Pool, Busy
    <2>4. \A u \in Hands(c) : pc'[u] = pc[u]
        BY <1>1, <1>3, <2>1 DEF Hands
    <2> QED
        BY <1>1, <1>2, <1>4, <2>2, <2>3, <2>4, QuietPlaces
<1>5. CASE /\ jobs[c] # <<>> /\ job' = [job EXCEPT ![t] = Head(jobs[c])]
           /\ jobs' = [jobs EXCEPT ![c] = Tail(jobs[c])] /\ Goto(t, Submission(t))
    <2>1. PICK todo \in Seq(Refs) : todo = jobs[c] /\ todo # <<>>
        BY <1>1, <1>5
    <2>2. /\ Head(todo) \in Refs /\ Tail(todo) \in Seq(Refs)
          /\ ToSet(todo) = {Head(todo)} \cup ToSet(Tail(todo))
          /\ IsInjective(todo) => IsInjective(Tail(todo)) /\ Head(todo) \notin ToSet(Tail(todo))
        BY <2>1, TailProperties
    <2>3. PICK hands : hands = Hands(c)
        OBVIOUS
    <2>4. /\ pc'[t] \in {"token", "send"} /\ \A u \in Threads : u # t => pc'[u] = pc[u]
          /\ job'[t] = Head(todo) /\ \A u \in Threads : u # t => job'[u] = job[u]
        BY <1>1, <1>5, <2>1 DEF Goto, Submission
    <2>5. Todo(c) = todo /\ Todo(c)' = Tail(todo)
        BY <1>1, <1>5, <2>1, <2>4 DEF Todo
    <2>6. Log(c)' = Log(c) /\ Logged(c)' = Logged(c)
        BY <1>1, <2>4 DEF Log, Logged
    <2>7. PICK log \in Seq(ResultType) : log = Log(c)
        BY <1>1, PlacesTyped
    <2>8. Hands(c)' = hands \cup {t} /\ t \notin hands /\ hands \subseteq Threads
        BY <1>1, <1>3, <2>3, <2>4 DEF Hands, Pool, Busy
    <2>9. \A u \in hands : u # t /\ pc'[u] = pc[u] /\ job'[u] = job[u] /\ got'[u] = got[u]
        BY <1>1, <2>4, <2>8
    <2>10. Apart(c)'
        <3>1. IsInjective(Todo(c))' /\ Head(todo) \notin ToSet(Tail(todo))
            BY <2>2, <2>5 DEF Placed, Apart
        <3>2. \A u \in hands : job[u] # Head(todo) /\ job[u] \notin ToSet(Tail(todo)) \cup Logged(c)
            BY <2>2, <2>3, <2>5 DEF Placed, Apart
        <3>3. Head(todo) \notin Logged(c) /\ ToSet(Tail(todo)) \cap Logged(c) = {}
            BY <2>2, <2>5 DEF Placed, Apart
        <3>4. \A u, w \in hands \cup {t} : job'[u] = job'[w] => u = w
            BY <2>3, <2>4, <2>9, <3>2 DEF Placed, Apart
        <3>5. \A u \in hands \cup {t} : job'[u] \notin ToSet(Tail(todo)) \cup Logged(c)
            BY <2>4, <2>9, <3>1, <3>2, <3>3
        <3>6. \A i, j \in DOMAIN log : log[i].ref = log[j].ref => i = j
            BY <2>7 DEF Placed, Apart
        <3> QED
            BY <2>5, <2>6, <2>7, <2>8, <3>1, <3>3, <3>4, <3>5, <3>6 DEF Apart
    <2>11. Truthful(c)'
        <3>1. \A r \in ToSet(todo) : TakenFrom(c, r) = {}
            BY <2>5 DEF Placed, Truthful
        <3>2. \A r \in ToSet(Tail(todo)) : TakenFrom(c, r)' = {}
            BY <1>2, <2>2, <3>1
        <3>3. TakenFrom(c, job[t])' = {}
            <4>1. TakenFrom(c, Head(todo))' = {}
                BY <1>2, <2>2, <3>1
            <4> QED
                BY <2>4, <4>1 DEF TakenFrom
        <3>4. \A u \in hands : TakenFrom(c, job[u])' = TakenFrom(c, job[u])
            BY <1>1, <2>9 DEF TakenFrom
        <3>5. \A u \in hands \cup {t} : pc'[u] # "sent" => TakenFrom(c, job[u])' = {}
            BY <2>3, <2>9, <3>3, <3>4 DEF Placed, Truthful
        <3>6. c \notin hurt' => \A u \in hands \cup {t} : pc'[u] = "sent" =>
                  (got'[u] = "ok" <=> TakenFrom(c, job[u])' # {})
            BY <1>1, <2>3, <2>4, <2>9, <3>4 DEF Placed, Truthful
        <3>7. c \notin hurt' => \A i \in DOMAIN log :
                  log[i].success <=> TakenFrom(c, log[i].ref)' # {}
            BY <1>1, <1>2, <2>7 DEF Placed, Truthful
        <3> QED
            BY <2>5, <2>6, <2>7, <2>8, <3>2, <3>5, <3>6, <3>7 DEF Truthful
    <2>12. Complete(c)'
        <3>1. {job'[u] : u \in hands \cup {t}} = {job[u] : u \in hands} \cup {Head(todo)}
            BY <2>4, <2>9
        <3> QED
            BY <1>1, <2>2, <2>3, <2>5, <2>6, <2>8, <3>1 DEF Placed, Complete, Items, Default
    <2> QED
        BY <2>10, <2>11, <2>12 DEF Placed
<1> QED
    BY <1>4, <1>5 DEF TakeJob

\* What a sequence is after some elements more, by the places of its elements.
LEMMA ConcatPlaces ==
    ASSUME NEW S, NEW a \in Seq(S), NEW b \in Seq(S)
    PROVE  /\ a \o b \in Seq(S)
           /\ DOMAIN a \subseteq DOMAIN (a \o b) /\ \A i \in DOMAIN a : (a \o b)[i] = a[i]
           /\ \A j \in DOMAIN b : Len(a) + j \in DOMAIN (a \o b) /\ (a \o b)[Len(a) + j] = b[j]
           /\ \A i \in DOMAIN (a \o b) :
                  \/ i \in DOMAIN a
                  \/ i \notin DOMAIN a /\ \E j \in DOMAIN b : i = Len(a) + j
<1>1. Len(a) \in Nat /\ Len(b) \in Nat /\ DOMAIN a = 1 .. Len(a) /\ DOMAIN b = 1 .. Len(b)
    OBVIOUS
<1>2. /\ a \o b \in Seq(S) /\ Len(a \o b) = Len(a) + Len(b)
      /\ \A i \in 1 .. Len(a) + Len(b) : (a \o b)[i] = IF i <= Len(a) THEN a[i] ELSE b[i - Len(a)]
    BY ConcatProperties
<1>3. DOMAIN (a \o b) = 1 .. Len(a) + Len(b)
    BY <1>2
<1>4. \A j \in DOMAIN b : Len(a) + j \in DOMAIN (a \o b) /\ (a \o b)[Len(a) + j] = b[j]
    <2> SUFFICES ASSUME NEW j \in 1 .. Len(b)
                 PROVE  Len(a) + j \in 1 .. Len(a) + Len(b) /\ (a \o b)[Len(a) + j] = b[j]
        BY <1>1, <1>3
    <2>1. Len(a) + j \in 1 .. Len(a) + Len(b) /\ ~(Len(a) + j <= Len(a)) /\ Len(a) + j - Len(a) = j
        BY <1>1
    <2> QED
        BY <1>2, <2>1
<1>5. \A i \in 1 .. Len(a) + Len(b) : i \in 1 .. Len(a) \/ (i - Len(a) \in 1 .. Len(b) /\ i = Len(a) + (i - Len(a))
          /\ i \notin 1 .. Len(a))
    BY <1>1
<1>6. \A i \in DOMAIN a : i \in DOMAIN (a \o b) /\ (a \o b)[i] = a[i]
    BY <1>1, <1>2, <1>3
<1> QED
    BY <1>1, <1>2, <1>3, <1>4, <1>5, <1>6

\* The log of a bulk call grows by results of references that were in no other result and are
\* no longer in any other place.
LEMMA LogGrows ==
    ASSUME NEW old \in Seq(ResultType), NEW new \in Seq(ResultType),
           \A i, j \in DOMAIN old : old[i].ref = old[j].ref => i = j,
           \A i, j \in DOMAIN new : new[i].ref = new[j].ref => i = j,
           \A i \in DOMAIN old, j \in DOMAIN new : old[i].ref # new[j].ref
    PROVE  LET log == old \o new
           IN  /\ \A i, j \in DOMAIN log : log[i].ref = log[j].ref => i = j
               /\ {log[i].ref : i \in DOMAIN log} =
                      {old[i].ref : i \in DOMAIN old} \cup {new[i].ref : i \in DOMAIN new}
               /\ \A i \in DOMAIN log : \/ \E j \in DOMAIN old : log[i] = old[j]
                                        \/ \E j \in DOMAIN new : log[i] = new[j]
<1>1. PICK log : log = old \o new
    OBVIOUS
<1>2. PICK n : n = Len(old)
    OBVIOUS
<1>3. /\ DOMAIN old \subseteq DOMAIN log /\ \A i \in DOMAIN old : log[i] = old[i]
      /\ \A j \in DOMAIN new : n + j \in DOMAIN log /\ log[n + j] = new[j]
      /\ \A i \in DOMAIN log : i \in DOMAIN old \/ \E j \in DOMAIN new : i = n + j
    BY <1>1, <1>2, ConcatPlaces
<1>4. ASSUME NEW i \in DOMAIN log, NEW j \in DOMAIN log, log[i].ref = log[j].ref PROVE i = j
    <2>1. CASE i \in DOMAIN old /\ j \in DOMAIN old
        BY <1>3, <1>4, <2>1
    <2>2. CASE i \in DOMAIN old /\ \E k \in DOMAIN new : j = n + k
        BY <1>3, <1>4, <2>2
    <2>3. CASE j \in DOMAIN old /\ \E k \in DOMAIN new : i = n + k
        BY <1>3, <1>4, <2>3
    <2>4. ASSUME NEW k \in DOMAIN new, NEW l \in DOMAIN new, i = n + k, j = n + l PROVE i = j
        <3>1. new[k].ref = new[l].ref
            BY <1>3, <1>4, <2>4
        <3> QED
            BY <2>4, <3>1
    <2> QED
        BY <1>3, <2>1, <2>2, <2>3, <2>4
<1>5. \A i \in DOMAIN log : (\E j \in DOMAIN old : log[i] = old[j]) \/ (\E j \in DOMAIN new : log[i] = new[j])
    BY <1>3
<1>6. /\ \A j \in DOMAIN old : \E i \in DOMAIN log : log[i] = old[j]
      /\ \A j \in DOMAIN new : \E i \in DOMAIN log : log[i] = new[j]
    BY <1>3
<1>7. {log[i].ref : i \in DOMAIN log} =
          {old[i].ref : i \in DOMAIN old} \cup {new[i].ref : i \in DOMAIN new}
    BY <1>5, <1>6
<1> QED
    BY <1>1, <1>4, <1>5, <1>7

LEMMA PutResultPlaces ==
    ASSUME TypeInv, NEW t \in Threads, PutResult(t), t \in Pool(t[1]), pc[Main(t[1])] = "wait",
           Placed(t[1])
    PROVE  Placed(t[1])'
<1> DEFINE c == t[1]
<1>1. /\ c \in Calls /\ Main(c) \in Threads /\ Pool(c) \subseteq Threads /\ Main(c) # t
      /\ DOMAIN pc = Threads /\ DOMAIN channel = Calls /\ pc[t] = "sent"
      /\ UNCHANGED <<chain, req, taken, hurt, got, job, jobs, rest, results>>
      /\ results[c] \in Seq(ResultType) /\ channel[c] \in Seq(ResultType)
    BY ThreadsOfCalls DEF TypeInv, TypeOK, PutResult, callVars, NoFault
<1>2. \A r : TakenFrom(c, r)' = TakenFrom(c, r)
    BY <1>1 DEF TakenFrom
<1>3. PICK hands : hands = Hands(c)
    OBVIOUS
<1>4. t \in hands /\ hands \subseteq Threads
    BY <1>1, <1>3 DEF Hands, Busy
<1>5. PICK new : new = Result(job[t], got[t] = "ok")
    OBVIOUS
<1>6. new \in ResultType /\ new.ref = job[t] /\ (new.success <=> got[t] = "ok")
    <2>1. job[t] \in Refs
        BY <1>1, <1>3, <1>4, PlacesTyped
    <2>2. (got[t] = "ok") \in BOOLEAN
        OBVIOUS
    <2> QED
        BY <1>5, <2>1, <2>2, Zenon DEF Result, ResultType
<1>7. PICK log \in Seq(ResultType) : log = Log(c)
    BY <1>1, PlacesTyped
<1>8. /\ pc'[t] = "take" /\ \A u \in Threads : u # t => pc'[u] = pc[u]
      /\ channel'[c] = Append(channel[c], new)
    BY <1>1, <1>5 DEF PutResult, Goto
<1>9. Todo(c)' = Todo(c) /\ Hands(c)' = hands \ {t} /\ \A u \in hands \ {t} : pc'[u] = pc[u]
    BY <1>1, <1>3, <1>4, <1>8 DEF Todo, Hands, Items, Pool, Busy
<1>10. PICK todo \in Seq(Refs) : todo = Todo(c)
    BY <1>1, PlacesTyped
<1>11. Log(c)' = log \o <<new>>
    <2>1. log = results[c] \o channel[c] /\ Log(c)' = results[c] \o Append(channel[c], new)
        BY <1>1, <1>7, <1>8 DEF Log
    <2>2. Append(channel[c], new) = channel[c] \o <<new>> /\ <<new>> \in Seq(ResultType)
        BY <1>1, <1>6, AppendIsConcat
    <2>3. (results[c] \o channel[c]) \o <<new>> = results[c] \o (channel[c] \o <<new>>)
        <3>1. \A x, y, z \in Seq(ResultType) : (x \o y) \o z = x \o (y \o z)
            BY ConcatAssociative
        <3> QED
            BY <1>1, <2>2, <3>1
    <2> QED
        BY <2>1, <2>2, <2>3
<1>12. /\ <<new>> \in Seq(ResultType) /\ DOMAIN <<new>> = {1} /\ <<new>>[1] = new
    BY <1>6
<1>13. /\ \A i, j \in DOMAIN log : log[i].ref = log[j].ref => i = j
       /\ Logged(c) = {log[i].ref : i \in DOMAIN log}
       /\ \A i \in DOMAIN log : log[i].ref \in Logged(c)
       /\ job[t] \notin Logged(c) /\ job[t] \notin ToSet(todo)
    BY <1>3, <1>4, <1>7, <1>10 DEF Placed, Apart, Logged
<1>14. PICK grown : grown = Log(c)'
    OBVIOUS
<1>15. /\ \A i, j \in DOMAIN grown : grown[i].ref = grown[j].ref => i = j
       /\ Logged(c)' = Logged(c) \cup {job[t]}
       /\ \A i \in DOMAIN grown : grown[i] = new \/ \E j \in DOMAIN log : grown[i] = log[j]
    <2>1. \A i \in DOMAIN log, j \in DOMAIN <<new>> : log[i].ref # <<new>>[j].ref
        BY <1>6, <1>12, <1>13
    <2>2. \A i, j \in DOMAIN <<new>> : <<new>>[i].ref = <<new>>[j].ref => i = j
        BY <1>12
    <2>3. {<<new>>[i].ref : i \in DOMAIN <<new>>} = {job[t]}
        BY <1>6, <1>12
    <2>4. Logged(c)' = {(log \o <<new>>)[i].ref : i \in DOMAIN (log \o <<new>>)}
        BY <1>11 DEF Logged
    <2>5. LET l == log \o <<new>>
          IN  /\ \A i, j \in DOMAIN l : l[i].ref = l[j].ref => i = j
              /\ {l[i].ref : i \in DOMAIN l} =
                     {log[i].ref : i \in DOMAIN log} \cup {<<new>>[i].ref : i \in DOMAIN <<new>>}
              /\ \A i \in DOMAIN l : \/ \E j \in DOMAIN log : l[i] = log[j]
                                     \/ \E j \in DOMAIN <<new>> : l[i] = <<new>>[j]
        BY <1>12, <1>13, <2>1, <2>2, LogGrows
    <2> QED
        BY <1>11, <1>12, <1>13, <1>14, <2>3, <2>4, <2>5
<1>16. Apart(c)'
    <2>1. IsInjective(todo) /\ \A u, w \in hands : job[u] = job[w] => u = w
        BY <1>3, <1>10 DEF Placed, Apart
    <2>2. \A u \in hands \ {t} : job[u] \notin ToSet(todo) \cup (Logged(c) \cup {job[t]})
        BY <1>3, <1>4, <1>10 DEF Placed, Apart
    <2>3. ToSet(todo) \cap (Logged(c) \cup {job[t]}) = {}
        BY <1>10, <1>13 DEF Placed, Apart
    <2>4. job' = job
        BY <1>1
    <2> QED
        BY <1>9, <1>10, <1>15, <1>14, <2>1, <2>2, <2>3, <2>4 DEF Apart
<1>17. Truthful(c)'
    <2>1. \A r \in ToSet(todo) : TakenFrom(c, r)' = {}
        BY <1>2, <1>10 DEF Placed, Truthful
    <2>2. \A u : TakenFrom(c, job[u])' = TakenFrom(c, job[u])
        BY <1>1 DEF TakenFrom
    <2>3. \A u \in hands \ {t} : pc'[u] # "sent" => TakenFrom(c, job[u])' = {}
        BY <1>3, <1>9, <2>2 DEF Placed, Truthful
    <2>4. ASSUME c \notin hurt'
          PROVE  /\ \A u \in hands \ {t} : pc'[u] = "sent" => (got'[u] = "ok" <=> TakenFrom(c, job[u])' # {})
                 /\ \A i \in DOMAIN grown : grown[i].success <=> TakenFrom(c, grown[i].ref)' # {}
        <3>1. c \notin hurt /\ got' = got
            BY <1>1, <2>4
        <3>2. \A u \in hands : pc[u] = "sent" => (got[u] = "ok" <=> TakenFrom(c, job[u])' # {})
            BY <1>3, <2>2, <3>1 DEF Placed, Truthful
        <3>3. \A i \in DOMAIN log : log[i].success <=> TakenFrom(c, log[i].ref)' # {}
            BY <1>2, <1>7, <3>1 DEF Placed, Truthful
        <3>4. new.success <=> TakenFrom(c, new.ref)' # {}
            <4>1. new.success <=> TakenFrom(c, job[t]) # {}
                BY <1>1, <1>4, <1>6, <2>2, <3>2
            <4> QED
                BY <1>2, <1>6, <4>1
        <3> QED
            BY <1>9, <1>15, <3>1, <3>2, <3>3, <3>4
    <2> QED
        BY <1>9, <1>10, <1>14, <2>1, <2>3, <2>4 DEF Truthful
<1>18. Complete(c)'
    <2>1. {job[u] : u \in hands} = {job[u] : u \in hands \ {t}} \cup {job[t]}
        BY <1>4
    <2>2. \A u : job'[u] = job[u]
        BY <1>1
    <2>3. {job[u] : u \in Hands(c)}' = {job[u] : u \in hands \ {t}}
        BY <1>9, <2>2
    <2>4. Items(c)' = Items(c) /\ HasBulk(Default)' = HasBulk(Default)
        BY <1>1 DEF Items, Default, HasBulk
    <2> QED
        BY <1>3, <1>9, <1>10, <1>15, <2>1, <2>3, <2>4 DEF Placed, Complete
<1> QED
    BY <1>16, <1>17, <1>18 DEF Placed

\* A native call takes some of the transfers it is given, and reports others as failed.
LEMMA NativeTaken ==
    ASSUME TypeInv, NEW c \in Calls, NEW refs, refs \subseteq Refs, NEW o \in NativeOutcomes(refs),
           Native(c, o)
    PROVE  /\ \A r \in Refs : r \notin refs => TakenFrom(c, r)' = TakenFrom(c, r)
           /\ \A r \in o.invalid : r \in refs /\ TakenFrom(c, r)' = TakenFrom(c, r)
           /\ c \notin hurt' => c \notin hurt
<1>1. o.accepted \subseteq refs /\ o.invalid \subseteq refs /\ o.accepted \cap o.invalid = {}
    BY DEF NativeOutcomes
<1>2. /\ DOMAIN taken = Names /\ \A p \in Names : DOMAIN taken[p] = Refs
      /\ Default \in Names
    BY ChainTyped DEF TypeInv, TypeOK
<1>3. taken' = [taken EXCEPT ![Default] = [r \in Refs |-> IF r \in o.accepted THEN c ELSE taken[Default][r]]]
    BY DEF Native
<1>4. \A p \in Names, r \in Refs : r \notin o.accepted => taken'[p][r] = taken[p][r]
    BY <1>2, <1>3
<1>5. \A r \in Refs : r \notin o.accepted => TakenFrom(c, r)' = TakenFrom(c, r)
    BY <1>4 DEF TakenFrom
<1>6. c \notin hurt' => c \notin hurt
    BY DEF Native, Fault, NoFault
<1> QED
    BY <1>1, <1>5, <1>6

\* No worker of a call has a transfer in hand unless the call waits for them.
LEMMA NoHands ==
    ASSUME NEW c \in Calls, Course(c), pc[Main(c)] # "wait"
    PROVE  Hands(c) = {}
    BY DEF Course, Hands, Busy

LEMMA NativePlaces ==
    ASSUME TypeInv, NEW c \in Calls, Op(c) = "bulk", Course(c), Placed(c), UNCHANGED <<chain, req>>,
           pc[Main(c)] \in {"native", "chunk"}, Hands(c)' = {},
           NEW s \in Seq(Refs), NEW o \in NativeOutcomes(ToSet(s)), Native(c, o),
           ToSet(s) \subseteq ToSet(Todo(c)),
           Todo(c)' \in Seq(Refs), IsInjective(Todo(c)'),
           ToSet(Todo(c)') \subseteq ToSet(Todo(c)) \ ToSet(s),
           Log(c)' = results[c] \o Reported(o)
    PROVE  Placed(c)'
<1>1. PICK todo \in Seq(Refs) : todo = Todo(c)'
    OBVIOUS
<1>2. PICK old \in Seq(ResultType) : old = Log(c) /\ old = results[c]
    BY PlacesTyped DEF Log
<1>3. PICK refs : refs = ToSet(s) /\ refs \subseteq Refs /\ IsFiniteSet(refs)
    BY ElementsAreFinite
<1>4. PICK new : new = Reported(o)
    OBVIOUS
<1>5. /\ new \in Seq(ResultType)
      /\ \A i \in DOMAIN new : new[i].ref \in o.invalid /\ new[i].success = FALSE
      /\ \A i, j \in DOMAIN new : new[i].ref = new[j].ref => i = j
    BY <1>3, <1>4, ReportedTyped
<1>6. /\ \A r \in Refs : r \notin refs => TakenFrom(c, r)' = TakenFrom(c, r)
      /\ \A r \in o.invalid : r \in refs /\ TakenFrom(c, r)' = TakenFrom(c, r)
      /\ c \notin hurt' => c \notin hurt
    <2>1. /\ \A r \in Refs : r \notin ToSet(s) => TakenFrom(c, r)' = TakenFrom(c, r)
          /\ \A r \in o.invalid : r \in ToSet(s) /\ TakenFrom(c, r)' = TakenFrom(c, r)
          /\ c \notin hurt' => c \notin hurt
        <3>1. ToSet(s) \subseteq Refs
            BY <1>3
        <3> QED
            BY <3>1, NativeTaken
    <2> QED
        BY <1>3, <2>1
<1>7. /\ \A i, j \in DOMAIN old : old[i].ref = old[j].ref => i = j
      /\ \A i \in DOMAIN old : old[i].ref \in Refs /\ old[i].ref \notin ToSet(Todo(c))
    BY <1>2, PlacesTyped DEF Placed, Apart
<1>8. PICK log : log = old \o new /\ log = Log(c)'
    BY <1>2, <1>4
<1>9. /\ \A i, j \in DOMAIN log : log[i].ref = log[j].ref => i = j
      /\ \A i \in DOMAIN log : \/ \E j \in DOMAIN old : log[i] = old[j]
                               \/ \E j \in DOMAIN new : log[i] = new[j]
    <2>1. \A i \in DOMAIN old, j \in DOMAIN new : old[i].ref # new[j].ref
        BY <1>3, <1>5, <1>6, <1>7
    <2>2. LET l == old \o new
          IN  /\ \A i, j \in DOMAIN l : l[i].ref = l[j].ref => i = j
              /\ \A i \in DOMAIN l : \/ \E j \in DOMAIN old : l[i] = old[j]
                                     \/ \E j \in DOMAIN new : l[i] = new[j]
        BY <1>2, <1>5, <1>7, <2>1, LogGrows
    <2> QED
        BY <1>8, <2>2
<1>10. \A i \in DOMAIN log : log[i].ref \notin ToSet(todo)
    BY <1>1, <1>3, <1>5, <1>6, <1>7, <1>9
<1>11. Apart(c)'
    <2>1. Logged(c)' = {log[i].ref : i \in DOMAIN log}
        BY <1>8 DEF Logged
    <2>2. ToSet(todo) \cap Logged(c)' = {}
        BY <1>10, <2>1
    <2> QED
        BY <1>1, <1>8, <1>9, <2>2 DEF Apart
<1>12. Truthful(c)'
    <2>1. \A r \in ToSet(todo) : r \in Refs /\ r \notin refs /\ TakenFrom(c, r) = {}
        BY <1>1, <1>3, PlacesTyped DEF Placed, Truthful
    <2>2. \A r \in ToSet(todo) : TakenFrom(c, r)' = {}
        BY <1>6, <2>1
    <2>3. c \notin hurt' => \A j \in DOMAIN old : old[j].success <=> TakenFrom(c, old[j].ref)' # {}
        <3>1. \A j \in DOMAIN old : TakenFrom(c, old[j].ref)' = TakenFrom(c, old[j].ref)
            BY <1>3, <1>6, <1>7
        <3>2. c \notin hurt => \A j \in DOMAIN old : old[j].success <=> TakenFrom(c, old[j].ref) # {}
            BY <1>2 DEF Placed, Truthful
        <3> QED
            BY <1>6, <3>1, <3>2
    <2>4. \A j \in DOMAIN new : new[j].success <=> TakenFrom(c, new[j].ref)' # {}
        <3>1. \A r \in refs : TakenFrom(c, r) = {}
            BY <1>3 DEF Placed, Truthful
        <3> QED
            BY <1>5, <1>6, <3>1
    <2>5. c \notin hurt' => \A i \in DOMAIN log : log[i].success <=> TakenFrom(c, log[i].ref)' # {}
        BY <1>9, <2>3, <2>4
    <2> QED
        BY <1>1, <1>8, <2>2, <2>5 DEF Truthful
<1>13. Complete(c)'
    <2>1. HasBulk(Default)
        BY DEF Course
    <2> QED
        BY <2>1 DEF Complete, Default, HasBulk
<1> QED
    BY <1>11, <1>12, <1>13 DEF Placed

LEMMA BulkPlaces ==
    ASSUME TypeInv, NEW t \in Threads, Step(t), Op(t[1]) = "bulk", BulkCall(t[1]),
           t = Main(t[1]), BulkTransfer(t[1]), Placed(t[1])
    PROVE  Placed(t[1])'
<1> DEFINE c == t[1]
<1>1. /\ c \in Calls /\ Main(c) \in Threads /\ Pool(c) \subseteq Threads /\ Main(c) \notin Pool(c)
      /\ DOMAIN pc = Threads /\ DOMAIN rest = Calls /\ DOMAIN results = Calls /\ DOMAIN jobs = Calls
      /\ DOMAIN channel = Calls
      /\ rest[c] \in Seq(Refs) /\ results[c] \in Seq(ResultType) /\ channel[c] \in Seq(ResultType)
      /\ Items(c) \in Seq(Refs)
    BY ThreadsOfCalls, PlacesTyped DEF TypeInv, TypeOK
<1>2. UNCHANGED <<chain, req>> /\ Items(c)' = Items(c) /\ Pool(c)' = Pool(c)
    BY StepKeepsRequests DEF Items, Pool
<1>3. Course(c) /\ Course(c)'
    BY OwnCourse DEF BulkCall
<1>4. UNCHANGED taken => \A r : TakenFrom(c, r)' = TakenFrom(c, r)
    BY DEF TakenFrom
<1>5. ASSUME Hands(c) = {}, Hands(c)' = {}, Todo(c)' = Todo(c), Log(c)' = Log(c), UNCHANGED taken,
             c \notin hurt' => c \notin hurt
      PROVE  Placed(c)'
    BY <1>1, <1>2, <1>4, <1>5, QuietPlaces
<1>6. ASSUME NEW label \in {"native", "chunk", "done"}, Goto(Main(c), label) PROVE pc'[Main(c)] = label
    BY <1>1, <1>6 DEF Goto
<1>7. pc'[Main(c)] # "wait" => Hands(c)' = {}
    BY <1>3 DEF Course, Hands, Busy
<1>8. ASSUME NEW a, Return(c, a) PROVE pc'[Main(c)] = "done"
    BY <1>1, <1>8 DEF Return
<1>9. ASSUME NEW refs, StartPool(c, refs), UNCHANGED results
      PROVE  pc'[Main(c)] = "wait" /\ Hands(c)' = {} /\ Todo(c)' = refs /\ Log(c)' = results[c]
    <2>1. /\ pc'[Main(c)] = "wait" /\ \A u \in Pool(c) : pc'[u] = "take"
          /\ jobs'[c] = refs /\ channel'[c] = <<>>
        BY <1>1, <1>9 DEF StartPool
    <2>2. results[c] \o <<>> = results[c]
        BY <1>1, ConcatEmptySeq
    <2> QED
        BY <1>2, <1>9, <2>1, <2>2 DEF Hands, Todo, Log, Busy
<1>10. CASE InitiateBulkTransfer(c)
    <2>1. /\ pc[Main(c)] = "dispatch" /\ Hands(c) = {} /\ Todo(c) = Items(c) /\ Log(c) = results[c]
          /\ UNCHANGED <<taken, hurt, results>>
        BY <1>1, <1>3, <1>10, NoHands DEF InitiateBulkTransfer, Todo, Log, NoFault
    <2>2. CASE StartPool(c, Items(c))
        BY <1>5, <1>9, <2>1, <2>2
    <2>3. CASE rest' = [rest EXCEPT ![c] = Items(c)] /\ (Goto(Main(c), "native") \/ Goto(Main(c), "chunk"))
        <3>1. pc'[Main(c)] \in {"native", "chunk"} /\ rest'[c] = Items(c)
            BY <1>1, <1>6, <2>3
        <3>2. Todo(c)' = Items(c) /\ Log(c)' = results[c]
            BY <2>1, <3>1 DEF Todo, Log
        <3> QED
            BY <1>5, <1>7, <2>1, <3>1, <3>2
    <2> QED
        BY <1>10, <2>2, <2>3 DEF InitiateBulkTransfer
<1>11. CASE NativeBulk(c)
    <2>1. PICK o \in NativeOutcomes(ToSet(Items(c))) :
              Native(c, o) /\ results' = [results EXCEPT ![c] = Reported(o)] /\ Return(c, o.status)
        BY <1>11 DEF NativeBulk
    <2>2. /\ pc[Main(c)] = "native" /\ pc'[Main(c)] = "done" /\ Todo(c) = Items(c)
          /\ results[c] = <<>> /\ results'[c] = Reported(o)
        BY <1>1, <1>3, <1>8, <1>11, <2>1 DEF NativeBulk, Course, Todo
    <2>3. <<>> \in Seq(Refs) /\ IsInjective(<<>>) /\ ToSet(<<>>) = {}
        BY DEF IsInjective, ToSet
    <2>4. Todo(c)' = <<>> /\ Log(c)' = Reported(o) /\ Hands(c)' = {}
        BY <1>7, <2>2 DEF Todo, Log
    <2>5. Reported(o) \in Seq(ResultType)
        BY <1>1, ElementsAreFinite, ReportedTyped
    <2>6. results[c] \o Reported(o) = Reported(o)
        BY <2>2, <2>5, ConcatEmptySeq
    <2> QED
        BY <1>1, <1>2, <1>3, <2>1, <2>2, <2>3, <2>4, <2>6, NativePlaces
<1>12. CASE SplitAndProcessBulk(c)
    <2>1. /\ pc[Main(c)] = "chunk" /\ Todo(c) = rest[c] /\ Log(c) = results[c] /\ rest'[c] = Beyond(c)
          /\ Hands(c) = {}
        BY <1>1, <1>3, <1>12, NoHands DEF SplitAndProcessBulk, Todo, Log
    <2>2. /\ Chunk(c) \in Seq(Refs) /\ Beyond(c) \in Seq(Refs) /\ IsInjective(Beyond(c))
          /\ ToSet(Chunk(c)) \subseteq ToSet(rest[c]) /\ ToSet(Beyond(c)) \subseteq ToSet(rest[c])
          /\ ToSet(Chunk(c)) \cap ToSet(Beyond(c)) = {}
          /\ Len(Chunk(c)) < MinBatch => Chunk(c) = rest[c]
        BY <1>1, <2>1, ChunkProperties DEF Placed, Apart
    <2>3. CASE /\ rest[c] = <<>> /\ Return(c, AggregateBulkResults(results[c])) /\ NoFault
               /\ UNCHANGED <<taken, jobs, channel, results>>
        <3>1. pc'[Main(c)] = "done"
            BY <1>8, <2>3
        <3>2. Todo(c)' = <<>> /\ Log(c)' = results[c] /\ Hands(c)' = {}
            BY <1>7, <2>3, <3>1 DEF Todo, Log
        <3> QED
            BY <1>5, <2>1, <2>3, <3>2 DEF NoFault
    <2>4. ASSUME NEW o \in NativeOutcomes(ToSet(Chunk(c))), Native(c, o), UNCHANGED pc,
                 results' = [results EXCEPT ![c] = @ \o Reported(o)]
          PROVE  Placed(c)'
        <3>1. Todo(c)' = Beyond(c) /\ Log(c)' = results[c] \o Reported(o) /\ Hands(c)' = {}
            BY <1>1, <1>7, <2>1, <2>4 DEF Todo, Log
        <3> QED
            BY <1>1, <1>2, <1>3, <2>1, <2>2, <2>4, <3>1, NativePlaces
    <2>5. CASE /\ Len(Chunk(c)) \in 1 .. MinBatch - 1 /\ StartPool(c, Chunk(c)) /\ NoFault
               /\ UNCHANGED <<taken, results, answer>>
        <3>1. Chunk(c) = rest[c]
            BY <2>2, <2>5, ProvidersAssumption
        <3> QED
            BY <1>5, <1>9, <2>1, <2>5, <3>1 DEF NoFault
    <2> QED
        BY <1>12, <2>3, <2>4, <2>5 DEF SplitAndProcessBulk
<1>13. CASE CollectResults(c)
    <2>1. /\ pc[Main(c)] = "wait" /\ \A u \in Pool(c) : pc[u] = "exited"
          /\ UNCHANGED <<taken, hurt, rest>> /\ results'[c] = results[c] \o channel[c]
        BY <1>1, <1>13 DEF CollectResults, NoFault
    <2>2. jobs[c] = <<>>
        <3>1. <<c, 1>> \in Pool(c)
            BY ProvidersAssumption DEF Pool
        <3> QED
            BY <1>3, <2>1, <3>1 DEF Course
    <2>3. pc'[Main(c)] \in {"chunk", "done"}
        BY <1>6, <1>8, <1>13 DEF CollectResults
    <2>4. Hands(c) = {} /\ Hands(c)' = {}
        BY <1>7, <2>1, <2>3 DEF Hands, Busy
    <2>5. Todo(c)' = Todo(c) /\ Log(c)' = Log(c)
        BY <1>3, <2>1, <2>2, <2>3 DEF Todo, Log, Course
    <2> QED
        BY <1>5, <2>1, <2>4, <2>5
<1> QED
    BY <1>10, <1>11, <1>12, <1>13 DEF BulkTransfer

LEMMA OwnBulkCall ==
    ASSUME TypeInv, NEW t \in Threads, Step(t), Op(t[1]) = "bulk", BulkCall(t[1])
    PROVE  BulkCall(t[1])'
<1>1. Course(t[1]) /\ Course(t[1])'
    BY OwnCourse DEF BulkCall
<1>2. \/ t \in Pool(t[1]) /\ pc[Main(t[1])] = "wait" /\ (Submit(t) \/ TransferWorker(t))
      \/ t = Main(t[1]) /\ BulkTransfer(t[1])
    BY <1>1, BulkSteps
<1>3. Placed(t[1]) => Placed(t[1])'
    BY <1>2, SubmitPlaces, TakeJobPlaces, PutResultPlaces, BulkPlaces DEF TransferWorker
<1>4. Items(t[1])' = Items(t[1])
    BY StepKeepsRequests DEF Items
<1> QED
    BY <1>1, <1>3, <1>4 DEF BulkCall

LEMMA StillNoResults ==
    ASSUME TypeInv, NEW t \in Threads, Step(t), Op(t[1]) # "bulk", NoResults(t[1])
    PROVE  NoResults(t[1])'
<1> DEFINE c == t[1]
           Others == {"allow", "enquire", "create", "token", "fetch", "send", "sent", "idle", "done"}
<1>1. /\ c \in Calls /\ Main(c) \in Threads /\ DOMAIN pc = Threads /\ (t[2] = 0 => t = Main(c))
      /\ (t[2] # 0 => t # Main(c))
    BY ThreadsOfCalls DEF TypeInv, TypeOK
<1>2. Submission(Main(c)) \in Others /\ Start[Op(c)] \in Others
    BY <1>1, ItemsTyped DEF TypeInv, TypeOK, Submission, Start
<1>3. ASSUME UNCHANGED results, NEW u \in Threads, NEW label, Goto(u, label),
             u = Main(c) => label \in Others
      PROVE  NoResults(c)'
    BY <1>1, <1>3 DEF NoResults, Goto
<1>4. ASSUME UNCHANGED results, NEW a, Return(c, a) PROVE NoResults(c)'
    BY <1>1, <1>4 DEF NoResults, Return
<1>5. CASE Submit(t)
    <2>1. Goto(t, "fetch") \/ Goto(t, "send") \/ Goto(t, "sent")
        BY <1>5 DEF Submit, GetAccessToken, FetchNewToken, SendTransfer, SendEnquiry
    <2> QED
        BY <1>3, <1>5, <2>1 DEF Submit, bulkVars
<1>6. CASE TransferWorker(t)
    <2>1. UNCHANGED results /\ t # Main(c) /\ \E label : Goto(t, label)
        BY <1>1, <1>6 DEF TransferWorker, TakeJob, PutResult
    <2> QED
        BY <1>3, <2>1
<1>7. CASE InitiateTransfer(c) \/ Enquire(c) \/ AttemptEnquiry(c)
    <2>1. /\ UNCHANGED results
          /\ \/ \E a : Return(c, a)
             \/ Goto(Main(c), Submission(Main(c))) \/ Goto(Main(c), Start[Op(c)])
        BY <1>7 DEF InitiateTransfer, AttemptTransfer, RecordOutcome, Enquire, AttemptEnquiry, TryNext,
            bulkVars
    <2> QED
        BY <1>1, <1>2, <1>3, <1>4, <2>1
<1>8. CASE LegacyTransfer(c)
    <2>1. UNCHANGED results /\ ((\E a : Return(c, a)) \/ Goto(Main(c), Submission(Main(c))))
        BY <1>8 DEF LegacyTransfer, CreateRecord, FinishRecord, bulkVars
    <2> QED
        BY <1>1, <1>2, <1>3, <1>4, <2>1
<1>9. ~BulkTransfer(c)
    BY DEF NoResults, BulkTransfer, InitiateBulkTransfer, NativeBulk, SplitAndProcessBulk,
        CollectResults
<1> QED
    BY <1>5, <1>6, <1>7, <1>8, <1>9 DEF Step

LEMMA AnswerStep == TypeInv /\ AnswerInv /\ [Next]_vars => AnswerInv'
<1> SUFFICES ASSUME TypeInv, AnswerInv, [Next]_vars PROVE AnswerInv'
    OBVIOUS
<1>1. ASSUME NEW t \in Threads, Step(t) PROVE AnswerInv'
    <2>1. \A c \in Calls : Op(c)' = Op(c)
        BY <1>1, StepKeepsRequests DEF Op
    <2>2. ASSUME NEW c \in Calls, Op(c) = "single" PROVE SingleCall(c)'
        BY <1>1, <2>2, OwnSingleCall, OtherSingleCall DEF AnswerInv
    <2>3. ASSUME NEW c \in Calls, Op(c) = "bulk" PROVE BulkCall(c)'
        BY <1>1, <2>3, OwnBulkCall, OtherBulkCall DEF AnswerInv
    <2>4. ASSUME NEW c \in Calls, Op(c) # "bulk" PROVE NoResults(c)'
        <3>1. NoResults(c)
            BY <2>4 DEF AnswerInv
        <3>2. c # t[1] => NoResults(c)'
            BY <1>1, <3>1, OthersKeepCall DEF KeepsCall, NoResults
        <3> QED
            BY <1>1, <2>4, <3>1, <3>2, StillNoResults
    <2> QED
        BY <2>1, <2>2, <2>3, <2>4 DEF AnswerInv
<1>2. ASSUME UNCHANGED <<chain, req, taken, pc, job, got, jobs, channel, rest, results, answer, hurt>>
      PROVE  AnswerInv'
    <2>1. \A c, r : TakenFrom(c, r)' = TakenFrom(c, r)
        BY <1>2 DEF TakenFrom
    <2>2. ASSUME NEW c \in Calls, SingleCall(c) PROVE SingleCall(c)'
        <3>1. Ref(c)' = Ref(c) /\ Ending(c)' = Ending(c)
            BY <1>2 DEF Ref, Items, Ending
        <3>2. TookAs(c, Ref(c), Ending(c))' <=> TookAs(c, Ref(c), Ending(c))
            BY <1>2, <3>1 DEF TookAs, TakenFrom
        <3> QED
            BY <1>2, <2>2, <3>1, <3>2 DEF SingleCall, Pool
    <2>3. ASSUME NEW c \in Calls, BulkCall(c) PROVE BulkCall(c)'
        <3>1. Todo(c)' = Todo(c) /\ Log(c)' = Log(c) /\ Hands(c)' = Hands(c) /\ Items(c)' = Items(c)
            BY <1>2 DEF Todo, Log, Hands, Items, Pool
        <3>2. Course(c)'
            BY <1>2, <2>3 DEF BulkCall, Course, Pool, Default, Items
        <3>3. Placed(c) => Placed(c)'
            BY <1>2, <2>1, <3>1, QuietPlaces
        <3> QED
            BY <2>3, <3>1, <3>2, <3>3 DEF BulkCall
    <2> QED
        BY <1>2, <2>2, <2>3 DEF AnswerInv, Op, NoResults
<1>3. ASSUME NEW p \in Names, CoolDown(p) PROVE AnswerInv'
    BY <1>2, <1>3 DEF CoolDown, callVars, bulkVars, NoFault
<1>4. CASE UNCHANGED vars
    BY <1>2, <1>4 DEF vars
<1> QED
    BY <1>1, <1>3, <1>4 DEF Next

LEMMA AnswerInit == Init => AnswerInv
<1> SUFFICES ASSUME Init PROVE AnswerInv
    OBVIOUS
<1>1. TypeInv
    BY TypesInit
<1>2. \A c, r : c \in Calls /\ r \in Refs => TakenFrom(c, r) = {}
    BY ProvidersAssumption DEF Init, TakenFrom
<1>3. ASSUME NEW c \in Calls
      PROVE  /\ Main(c) \in Threads /\ Items(c) \in Seq(Refs) /\ Head(Items(c)) \in Refs
             /\ pc[Main(c)] = Start[Op(c)] /\ job[Main(c)] = Ref(c) /\ answer[c] = "none"
             /\ \A t \in Pool(c) : pc[t] = "idle"
             /\ rest[c] = <<>> /\ results[c] = <<>> /\ hurt = {}
    <2>1. /\ Main(c) \in Threads /\ Main(c)[1] = c /\ Main(c)[2] = 0
          /\ \A t \in Pool(c) : t \in Threads /\ t[2] # 0
        BY ThreadsOfCalls DEF Main
    <2>2. Items(c) \in Seq(Refs) /\ Head(Items(c)) \in Refs
        BY ItemsTyped DEF Init
    <2> QED
        BY <2>1, <2>2 DEF Init, Op, Ref, Items
<1>4. ASSUME NEW c \in Calls, Op(c) = "single" PROVE SingleCall(c)
    BY <1>2, <1>3, <1>4 DEF SingleCall, Start, Ending, TookAs, Ref
<1>5. ASSUME NEW c \in Calls, Op(c) = "bulk" PROVE BulkCall(c)
    <2>1. pc[Main(c)] = "dispatch"
        BY <1>3, <1>5 DEF Start
    <2>2. Course(c)
        BY <1>3, <2>1 DEF Course
    <2>3. /\ Todo(c) = Items(c) /\ Hands(c) = {} /\ Log(c) = <<>> /\ Logged(c) = {}
          /\ DOMAIN Log(c) = {}
        BY <1>3, <2>1 DEF Todo, Hands, Log, Logged, Busy
    <2>4. IsInjective(Items(c)) => Apart(c)
        BY <2>3 DEF Apart
    <2>5. Truthful(c)
        <3>1. \A r \in ToSet(Items(c)) : r \in Refs
            BY <1>3, ElementsAreFinite
        <3> QED
            BY <1>2, <2>3, <3>1 DEF Truthful
    <2>6. Complete(c)
        BY <2>3 DEF Complete
    <2> QED
        BY <2>2, <2>4, <2>5, <2>6 DEF BulkCall, Placed
<1>6. ASSUME NEW c \in Calls, Op(c) # "bulk" PROVE NoResults(c)
    <2>1. Op(c) \in {"single", "legacy", "enquiry", "idle"}
        BY <1>1, <1>6, ItemsTyped DEF TypeInv, TypeOK
    <2> QED
        BY <1>3, <2>1 DEF NoResults, Start
<1> QED
    BY <1>4, <1>5, <1>6 DEF AnswerInv

LEMMA AnswersHold == Spec => [](TypeInv /\ AnswerInv)
<1>1. Init => TypeInv /\ AnswerInv
    BY TypesInit, AnswerInit
<1>2. TypeInv /\ AnswerInv /\ [Next]_vars => (TypeInv /\ AnswerInv)'
    BY TypesStep, AnswerStep
<1> QED
    BY <1>1, <1>2, PTL DEF Spec

\* What a call returns is what happened, unless it lost a reply: a single transfer that ended
\* ok was taken by exactly one provider, and any other by none, however many providers of
\* the chain were tried; and a result of a bulk call with distinct references is a success
\* exactly if its transfer was taken (tryTransfer, transferWorker, the clients).
THEOREM AnswersAreTrue == Spec => []AnswerIsTrue
<1>1. TypeInv /\ AnswerInv => AnswerIsTrue
    <2> SUFFICES ASSUME TypeInv, AnswerInv, NEW c \in Calls, c \notin hurt
                 PROVE  /\ Op(c) = "single" /\ answer[c] # "none" =>
                               LET takers == TakenFrom(c, Head(Items(c))) IN
                               IF answer[c] = "ok" THEN \E p \in Names : takers = {p} ELSE takers = {}
                        /\ IsInjective(Items(c)) => \A i \in DOMAIN results[c] :
                               results[c][i].success <=> TakenFrom(c, results[c][i].ref) # {}
        BY DEF AnswerIsTrue
    <2>1. ASSUME Op(c) = "single", answer[c] # "none"
          PROVE  LET takers == TakenFrom(c, Head(Items(c))) IN
                 IF answer[c] = "ok" THEN \E p \in Names : takers = {p} ELSE takers = {}
        <3>1. SingleCall(c) /\ Ending(c) = answer[c]
            BY <2>1 DEF AnswerInv, SingleCall, Ending
        <3> QED
            BY <3>1 DEF SingleCall, TookAs, Ref
    <2>2. ASSUME Op(c) = "bulk", IsInjective(Items(c)), NEW i \in DOMAIN results[c]
          PROVE  results[c][i].success <=> TakenFrom(c, results[c][i].ref) # {}
        <3>1. BulkCall(c) /\ Placed(c)
            BY <2>2 DEF AnswerInv, BulkCall
        <3>2. i \in DOMAIN Log(c) /\ Log(c)[i] = results[c][i]
            <4>1. results[c] \in Seq(ResultType) /\ channel[c] \in Seq(ResultType)
                BY DEF TypeInv, TypeOK
            <4>2. i \in DOMAIN (results[c] \o channel[c])
                  /\ (results[c] \o channel[c])[i] = results[c][i]
                BY <2>2, <4>1, ConcatPlaces
            <4> QED
                BY <2>2, <4>2 DEF Log
        <3> QED
            BY <3>1, <3>2 DEF Placed, Truthful
    <2>3. Op(c) # "bulk" => DOMAIN results[c] = {}
        BY DEF AnswerInv, NoResults
    <2> QED
        BY <2>1, <2>2, <2>3
<1> QED
    BY <1>1, AnswersHold, PTL

\* No transfer of a bulk call with distinct references has two results; and through a pool of
\* workers alone, however they share the jobs, each has one when the call returns
\* (executeBulkAsConcurrentSingles).
THEOREM ResultsAreUnique == Spec => []OneResultPerItem
<1>1. TypeInv /\ AnswerInv => OneResultPerItem
    <2> SUFFICES ASSUME TypeInv, AnswerInv, NEW c \in Calls, Op(c) = "bulk", IsInjective(Items(c))
                 PROVE  /\ \A i, j \in DOMAIN results[c] : results[c][i].ref = results[c][j].ref => i = j
                        /\ ~HasBulk(Default) /\ pc[Main(c)] = "done" =>
                               {results[c][i].ref : i \in DOMAIN results[c]} = ToSet(Items(c))
        BY DEF OneResultPerItem
    <2>1. Course(c) /\ Placed(c)
        BY DEF AnswerInv, BulkCall
    <2>2. \A i \in DOMAIN results[c] : i \in DOMAIN Log(c) /\ Log(c)[i] = results[c][i]
        <3>1. results[c] \in Seq(ResultType) /\ channel[c] \in Seq(ResultType)
            BY DEF TypeInv, TypeOK
        <3>2. ASSUME NEW i \in DOMAIN results[c]
              PROVE  /\ i \in DOMAIN (results[c] \o channel[c])
                     /\ (results[c] \o channel[c])[i] = results[c][i]
            BY <3>1, <3>2, ConcatPlaces
        <3> QED
            BY <3>2 DEF Log
    <2>3. \A i, j \in DOMAIN results[c] : results[c][i].ref = results[c][j].ref => i = j
        BY <2>1, <2>2 DEF Placed, Apart
    <2>4. ASSUME ~HasBulk(Default), pc[Main(c)] = "done"
          PROVE  {results[c][i].ref : i \in DOMAIN results[c]} = ToSet(Items(c))
        <3>1. Todo(c) = <<>> /\ Hands(c) = {} /\ Log(c) = results[c]
            BY <2>1, <2>4, NoHands DEF Todo, Log
        <3>2. ToSet(<<>>) = {}
            BY DEF ToSet
        <3> QED
            BY <2>1, <2>4, <3>1, <3>2 DEF Placed, Complete, Logged
    <2> QED
        BY <2>3, <2>4
<1> QED
    BY <1>1, AnswersHold, PTL
=============================================================================
