------------------------------ MODULE Providers ------------------------------
(***************************************************************************)
(* The provider manager (internal/service/provider/manager.go) over its    *)
(* circuit breakers and the clients of Paystack, Korapay and VFD, and the  *)
(* legacy VFD transfer service that shares the VFD client.                 *)
(*                                                                         *)
(* A single transfer walks the chain of providers under their breakers.    *)
(* A bulk transfer goes to the default provider only and passes no         *)
(* breaker: by its native bulk call, split into several of them, or one by *)
(* one through a pool of workers.                                          *)
(*                                                                         *)
(* A step is one critical section, one operation on a channel, or one      *)
(* request that can move money; requests that only prepare it (recipients, *)
(* account enquiries) are folded into it, as ways for it to fail.          *)
(***************************************************************************)
EXTENDS Breaker, Sequences, SequencesExt

CONSTANTS
    Kind,              \* which client each provider is: "paystack", "korapay" or "vfd"
    Configs,           \* possible configurations: a default provider and a fallback order
    Refs,              \* references of transfers
    Calls,             \* concurrent calls
    Workloads,         \* what the calls may be asked to do
    Workers,           \* the workers of a pool (DefaultConcurrentWorkers)
    MinBatch, MaxBatch,  \* the sizes of a native batch
    Nobody,            \* no call
    MaxFaults          \* the replies and commits that may get lost, in all

ASSUME ProvidersAssumption ==
    /\ Kind \in [Names -> {"paystack", "korapay", "vfd"}]
    /\ \A config \in Configs : config.default \in Names
    /\ \A work \in Workloads : \A c \in Calls :
           /\ work[c].op \in {"single", "bulk", "legacy", "enquiry", "idle"}
           /\ work[c].refs \in Seq(Refs)
           /\ IF work[c].op = "bulk" THEN work[c].refs # <<>> ELSE Len(work[c].refs) = 1
           /\ work[c].op = "legacy" => \E p \in Names : Kind[p] = "vfd"
    /\ Workers \in Nat \ {0}
    /\ MinBatch \in Nat \ {0} /\ MaxBatch \in Nat /\ MinBatch <= MaxBatch
    /\ Nobody \notin Calls
    /\ MaxFaults \in Nat

VARIABLES
    chain,     \* the providers in the order in which they are tried
    token,     \* the VFD client holds an access token
    issued,    \* history: access tokens that VFD has issued
    taken,     \* the call from which each provider has taken each reference, or Nobody
    rows,      \* references of the committed transfer_records
    writer,    \* the call whose open database transaction inserted each reference, or Nobody
    req,       \* what each call is asked to do
    pc,        \* the step that each goroutine takes next
    at,        \* the provider of the chain that a single transfer is at
    job,       \* the transfer that a goroutine submits
    got,       \* how the last submission of a goroutine ended
    jobs,      \* the channel of a pool's jobs
    channel,   \* the channel of a pool's results
    rest,      \* the transfers of a bulk call that no chunk has reached
    results,   \* the results that a bulk call has collected
    answer,    \* what each call has returned
    faults,    \* the number of faults so far
    hurt       \* history: the calls that met one

callVars == <<chain, req>>
legacyVars == <<rows, writer>>
bulkVars == <<jobs, channel, rest, results>>
vars == <<chain, breaker, token, issued, taken, rows, writer, req, pc, at, job, got,
          jobs, channel, rest, results, answer, faults, hurt>>

\* The goroutine of a call, and those of its pool.
Main(c) == <<c, 0>>
Pool(c) == {<<c, w>> : w \in 1 .. Workers}
Threads == Calls \X (0 .. Workers)

Op(c) == req[c].op
Items(c) == req[c].refs
Default == Head(chain)
HasBulk(p) == Kind[p] # "vfd"

\* The provider a goroutine submits to.
Provider(t) == IF Op(t[1]) \in {"single", "enquiry"} THEN chain[at[t[1]]] ELSE Default

\* Legacy transfers go to VFD, whatever the chain.
Vfd == CHOOSE p \in Names : Kind[p] = "vfd"
Target(t) == IF Op(t[1]) = "legacy" THEN Vfd ELSE Provider(t)

Start == [single |-> "allow", bulk |-> "dispatch", legacy |-> "create",
          enquiry |-> "enquire", idle |-> "idle"]
NoRef == "none"

\* The default provider, then the fallbacks without it and without names that are not
\* configured.
ParseFallbackProviders(config) ==
    SelectSeq(config.fallbacks, LAMBDA name : name # config.default /\ name \in Names)
Order(config) == <<config.default>> \o ParseFallbackProviders(config)

\* What the provers, which know nothing of SelectSeq, are told of it.
ASSUME OrderAssumption == \A config \in Configs : Order(config) \in Seq(Names) \ {<<>>}

Init ==
    /\ chain \in {Order(config) : config \in Configs}
    /\ breaker = [p \in Names |-> NewBreaker]
    /\ token = FALSE
    /\ issued = 0
    /\ taken = [p \in Names |-> [r \in Refs |-> Nobody]]
    /\ rows = {}
    /\ writer = [r \in Refs |-> Nobody]
    /\ req \in Workloads
    /\ pc = [t \in Threads |-> IF t[2] = 0 THEN Start[req[t[1]].op] ELSE "idle"]
    /\ at = [c \in Calls |-> 1]
    /\ job = [t \in Threads |-> IF t[2] = 0 THEN Head(req[t[1]].refs) ELSE NoRef]
    /\ got = [t \in Threads |-> "none"]
    /\ jobs = [c \in Calls |-> <<>>]
    /\ channel = [c \in Calls |-> <<>>]
    /\ rest = [c \in Calls |-> <<>>]
    /\ results = [c \in Calls |-> <<>>]
    /\ answer = [c \in Calls |-> "none"]
    /\ faults = 0
    /\ hurt = {}

Goto(t, label) == pc' = [pc EXCEPT ![t] = label]

Return(c, a) ==
    /\ pc' = [pc EXCEPT ![Main(c)] = "done"]
    /\ answer' = [answer EXCEPT ![c] = a]

Fault(c) ==
    /\ faults < MaxFaults
    /\ faults' = faults + 1
    /\ hurt' = hurt \cup {c}

NoFault == UNCHANGED <<faults, hurt>>

-----------------------------------------------------------------------------
(* The clients *)

\* The first step of a submission: VFD wants an access token.
Submission(t) == IF Kind[Target(t)] = "vfd" THEN "token" ELSE "send"

\* Mutant: no second look under the lock.
FetchNewToken_NoDoubleCheck(t) ==
    /\ pc[t] = "fetch"
    /\ \/ token' = TRUE /\ issued' = issued + 1 /\ Goto(t, "send") /\ UNCHANGED got
       \/ UNCHANGED <<token, issued>> /\ Goto(t, "sent") /\ got' = [got EXCEPT ![t] = "error"]

\* The token under the read lock.
GetAccessToken(t) ==
    /\ pc[t] = "token"
    /\ Goto(t, IF token THEN "send" ELSE "fetch")
    /\ UNCHANGED <<token, issued, got>>

\* Under the write lock, held during the request.  A token never expires for the client.
FetchNewToken(t) ==
    /\ pc[t] = "fetch"
    /\ \/ token /\ Goto(t, "send") /\ UNCHANGED <<token, issued, got>>
       \/ /\ ~token
          /\ \/ token' = TRUE /\ issued' = issued + 1 /\ Goto(t, "send") /\ UNCHANGED got
             \/ /\ UNCHANGED <<token, issued>>
                /\ Goto(t, "sent")
                /\ got' = [got EXCEPT ![t] = "error"]

\* What comes back from a request: nothing that can be read (no answer, a status outside
\* 200 to 299, a body that cannot be decoded), a body that says no, or one that says yes.
Replies == {"unreadable", "no", "yes"}

\* VFD says no by a status other than 00, which its client makes an error.
CheckVFDStatus(reply) == IF reply = "yes" THEN "ok" ELSE "error"
DoRequest(reply) == IF reply = "unreadable" THEN "error" ELSE CheckVFDStatus(reply)

\* Paystack and Korapay say no by a flag, which becomes a result without success.
MakeRequest(reply, mapped) == IF reply = "unreadable" THEN "error" ELSE mapped
MapPaystackResponse(reply) == IF reply = "yes" THEN "ok" ELSE "refused"
MapKorapayResponse(reply) == IF reply = "yes" THEN "ok" ELSE "refused"

\* The replies to the requests that prepare a transfer, and how a reply among them ends it.
\* Paystack's client makes a recipient; the VFD provider makes two enquiries, of which one
\* that fails is enough; the legacy service leaves both to its caller.
PaystackPrepares(recipient) == MakeRequest(recipient, MapPaystackResponse(recipient))
VfdPrepares(enquiry) == DoRequest(enquiry)
Prepared(t, reply) ==
    CASE Kind[Target(t)] = "paystack" -> PaystackPrepares(reply)
      [] Kind[Target(t)] = "vfd" /\ Op(t[1]) # "legacy" -> VfdPrepares(reply)
      [] OTHER -> "ok"

\* How the clients read the reply to the transfer itself.
PaystackTransfer(reply) == MakeRequest(reply, MapPaystackResponse(reply))
KorapayTransfer(reply) == MakeRequest(reply, MapKorapayResponse(reply))
VfdTransfer(reply) == DoRequest(reply)
Transferred(t, reply) ==
    CASE Kind[Target(t)] = "paystack" -> PaystackTransfer(reply)
      [] Kind[Target(t)] = "korapay" -> KorapayTransfer(reply)
      [] Kind[Target(t)] = "vfd" -> VfdTransfer(reply)

\* A provider takes a reference once.
Takes(p, r, c) ==
    /\ taken[p][r] = Nobody
    /\ taken' = [taken EXCEPT ![p][r] = c]

\* The requests of one transfer, up to the one that moves money.  A provider says yes
\* exactly if it takes the transfer; an unreadable reply may hide that it did.
SendTransfer(t) ==
    /\ pc[t] = "send"
    /\ Op(t[1]) # "enquiry"
    /\ Goto(t, "sent")
    /\ \E preparation, reply \in Replies :
           \/ /\ Prepared(t, preparation) # "ok"
              /\ got' = [got EXCEPT ![t] = Prepared(t, preparation)]
              /\ UNCHANGED taken
              /\ NoFault
           \/ /\ Prepared(t, preparation) = "ok"
              /\ got' = [got EXCEPT ![t] = Transferred(t, reply)]
              /\ \/ reply = "yes" /\ Takes(Target(t), job[t], t[1]) /\ NoFault
                 \/ reply # "yes" /\ UNCHANGED taken /\ NoFault
                 \/ reply = "unreadable" /\ Takes(Target(t), job[t], t[1]) /\ Fault(t[1])

\* An enquiry (of an account, of a beneficiary, for the list of banks) moves nothing.
SendEnquiry(t) ==
    /\ pc[t] = "send"
    /\ Op(t[1]) = "enquiry"
    /\ Goto(t, "sent")
    /\ \E reply \in Replies : got' = [got EXCEPT ![t] = VfdTransfer(reply)]
    /\ UNCHANGED taken
    /\ NoFault

Submit(t) ==
    /\ \/ (GetAccessToken(t) \/ FetchNewToken(t)) /\ UNCHANGED taken /\ NoFault
       \/ (SendTransfer(t) \/ SendEnquiry(t)) /\ UNCHANGED <<token, issued>>
    /\ UNCHANGED <<callVars, breaker, legacyVars, at, job, bulkVars, answer>>

-----------------------------------------------------------------------------
(* A single transfer, and an enquiry *)

\* Mutant: goes one beyond the chain.
TryNext_OffByOne(c) ==
    IF at[c] <= Len(chain)
    THEN at' = [at EXCEPT ![c] = @ + 1] /\ Goto(Main(c), Start[Op(c)]) /\ UNCHANGED answer
    ELSE UNCHANGED at /\ Return(c, "error")

\* The next provider of the chain, or the last error.
TryNext(c) ==
    IF at[c] < Len(chain)
    THEN at' = [at EXCEPT ![c] = @ + 1] /\ Goto(Main(c), Start[Op(c)]) /\ UNCHANGED answer
    ELSE UNCHANGED at /\ Return(c, "error")

AttemptTransfer(c) ==
    /\ pc[Main(c)] = "allow"
    /\ \/ /\ Allow(Provider(Main(c)))
          /\ Goto(Main(c), Submission(Main(c)))
          /\ UNCHANGED <<at, answer>>
       \/ /\ Blocked(Provider(Main(c)))
          /\ TryNext(c)
          /\ UNCHANGED breaker
    /\ UNCHANGED <<callVars, token, issued, taken, legacyVars, job, got, bulkVars>>
    /\ NoFault

\* A refusal that is not an error is a success for the breaker and ends the chain.
RecordOutcome(c) ==
    /\ Op(c) = "single"
    /\ pc[Main(c)] = "sent"
    /\ \/ /\ got[Main(c)] # "error"
          /\ RecordSuccess(Provider(Main(c)))
          /\ Return(c, got[Main(c)])
          /\ UNCHANGED at
       \/ /\ got[Main(c)] = "error"
          /\ RecordFailure(Provider(Main(c)))
          /\ TryNext(c)
    /\ UNCHANGED <<callVars, token, issued, taken, legacyVars, job, got, bulkVars>>
    /\ NoFault

\* An enquiry asks the providers of the chain that can answer it, past the breakers.
Enquire(c) ==
    /\ pc[Main(c)] = "enquire"
    /\ IF Kind[Provider(Main(c))] = "vfd"
       THEN Goto(Main(c), Submission(Main(c))) /\ UNCHANGED <<at, answer>>
       ELSE TryNext(c)
    /\ UNCHANGED <<callVars, breaker, token, issued, taken, legacyVars, job, got, bulkVars>>
    /\ NoFault

AttemptEnquiry(c) ==
    /\ Op(c) = "enquiry"
    /\ pc[Main(c)] = "sent"
    /\ IF got[Main(c)] = "ok" THEN Return(c, "ok") /\ UNCHANGED at ELSE TryNext(c)
    /\ UNCHANGED <<callVars, breaker, token, issued, taken, legacyVars, job, got, bulkVars>>
    /\ NoFault

InitiateTransfer(c) == Op(c) = "single" /\ (AttemptTransfer(c) \/ RecordOutcome(c))

-----------------------------------------------------------------------------
(* A bulk transfer *)

Result(r, success) == [ref |-> r, success |-> success]
Succeeded(rs) == \E i \in DOMAIN rs : rs[i].success
Failed(rs) == \E i \in DOMAIN rs : ~rs[i].success

AggregateBulkResults(rs) ==
    IF ~Failed(rs) THEN "complete" ELSE IF Succeeded(rs) THEN "partial" ELSE "failed"

\* The transfers are put into the channel of jobs, which has room for all of them and is
\* closed, and the workers start.
StartPool(c, refs) ==
    /\ jobs' = [jobs EXCEPT ![c] = refs]
    /\ channel' = [channel EXCEPT ![c] = <<>>]
    /\ pc' = [t \in Threads |-> IF t \in Pool(c) THEN "take"
                                ELSE IF t = Main(c) THEN "wait" ELSE pc[t]]

\* By the capabilities of the default provider and the number of transfers.
InitiateBulkTransfer(c) ==
    /\ pc[Main(c)] = "dispatch"
    /\ \/ /\ ~HasBulk(Default) \/ Len(Items(c)) < MinBatch
          /\ StartPool(c, Items(c))
          /\ UNCHANGED rest
       \/ /\ HasBulk(Default) /\ Len(Items(c)) >= MinBatch
          /\ rest' = [rest EXCEPT ![c] = Items(c)]
          /\ Goto(Main(c), IF Len(Items(c)) <= MaxBatch THEN "native" ELSE "chunk")
          /\ UNCHANGED <<jobs, channel>>
    /\ UNCHANGED <<callVars, breaker, token, issued, taken, legacyVars, at, job, got, results, answer>>
    /\ NoFault

Chunk(c) == SubSeq(rest[c], 1, IF Len(rest[c]) < MaxBatch THEN Len(rest[c]) ELSE MaxBatch)
Beyond(c) == SubSeq(rest[c], Len(Chunk(c)) + 1, Len(rest[c]))

\* What a native call for the transfers of refs may come to.  Paystack first makes a
\* recipient for each of them, reports those for which it cannot, and sends the others;
\* Korapay sends all and reports none.  The provider takes any of what it is sent, unless it
\* refuses the batch.  An error leaves nothing taken, or hides what is.
NativeOutcomes(refs) ==
    LET new == {r \in refs : taken[Default][r] = Nobody}
        Possible(o) ==
            /\ o.accepted \subseteq new \ o.invalid
            /\ Kind[Default] = "korapay" => o.invalid = {}
            /\ o.invalid = refs => o.status = "failed"
            /\ o.status = "failed" => o.accepted = {}
    IN  {o \in [accepted : SUBSET refs, invalid : SUBSET refs,
                status : {"processing", "failed", "error"}] : Possible(o)}

Native(c, o) ==
    /\ taken' = [taken EXCEPT ![Default] = [r \in Refs |-> IF r \in o.accepted THEN c ELSE @[r]]]
    /\ IF o.status = "error" /\ o.accepted # {} THEN Fault(c) ELSE NoFault

\* The results that come with an answer.
Reported(o) == IF o.status = "error" THEN <<>> ELSE SetToSeq({Result(r, FALSE) : r \in o.invalid})

\* The whole batch in one native call, whose result is the answer.
NativeBulk(c) ==
    /\ pc[Main(c)] = "native"
    /\ \E o \in NativeOutcomes(ToSet(Items(c))) :
           /\ Native(c, o)
           /\ results' = [results EXCEPT ![c] = Reported(o)]
           /\ Return(c, o.status)
    /\ UNCHANGED <<callVars, breaker, token, issued, legacyVars, at, job, got, jobs, channel, rest>>

\* One chunk after the other; a last one that is too small goes through a pool.  A chunk that
\* fails leaves no results, and the status is taken from the results there are.
SplitAndProcessBulk(c) ==
    /\ pc[Main(c)] = "chunk"
    /\ rest' = [rest EXCEPT ![c] = Beyond(c)]
    /\ \/ /\ rest[c] = <<>>
          /\ Return(c, AggregateBulkResults(results[c]))
          /\ NoFault
          /\ UNCHANGED <<taken, jobs, channel, results>>
       \/ /\ Len(Chunk(c)) >= MinBatch
          /\ \E o \in NativeOutcomes(ToSet(Chunk(c))) :
                 /\ Native(c, o)
                 /\ results' = [results EXCEPT ![c] = @ \o Reported(o)]
          /\ UNCHANGED <<pc, answer, jobs, channel>>
       \/ /\ Len(Chunk(c)) \in 1 .. MinBatch - 1
          /\ StartPool(c, Chunk(c))
          /\ NoFault
          /\ UNCHANGED <<taken, results, answer>>
    /\ UNCHANGED <<callVars, breaker, token, issued, legacyVars, at, job, got>>

IsSplit(c) == HasBulk(Default) /\ Len(Items(c)) > MaxBatch

\* The workers are done: wg.Wait returns and the results are collected.
CollectResults(c) ==
    /\ pc[Main(c)] = "wait"
    /\ \A t \in Pool(c) : pc[t] = "exited"
    /\ results' = [results EXCEPT ![c] = @ \o channel[c]]
    /\ IF IsSplit(c) THEN Goto(Main(c), "chunk") /\ UNCHANGED answer
                     ELSE Return(c, AggregateBulkResults(channel[c]))
    /\ UNCHANGED <<callVars, breaker, token, issued, taken, legacyVars, at, job, got, jobs, channel, rest>>
    /\ NoFault

\* A worker receives from the channel of jobs until that is closed and empty.
TakeJob(t) ==
    /\ pc[t] = "take"
    /\ \/ /\ jobs[t[1]] # <<>>
          /\ job' = [job EXCEPT ![t] = Head(jobs[t[1]])]
          /\ jobs' = [jobs EXCEPT ![t[1]] = Tail(@)]
          /\ Goto(t, Submission(t))
       \/ jobs[t[1]] = <<>> /\ Goto(t, "exited") /\ UNCHANGED <<job, jobs>>
    /\ UNCHANGED <<callVars, breaker, token, issued, taken, legacyVars, at, got, channel, rest, results, answer>>
    /\ NoFault

\* The room in the channel of results: one for each job.
Capacity(c) == IF IsSplit(c) THEN Len(Items(c)) % MaxBatch ELSE Len(Items(c))

\* Mutant: a failed job is not reported.
PutResult_Silent(t) ==
    /\ pc[t] = "sent"
    /\ Len(channel[t[1]]) < Capacity(t[1])
    /\ channel' = [channel EXCEPT ![t[1]] =
                       IF got[t] = "error" THEN @ ELSE Append(@, Result(job[t], got[t] = "ok"))]
    /\ Goto(t, "take")
    /\ UNCHANGED <<callVars, breaker, token, issued, taken, legacyVars, at, job, got, jobs, rest, results, answer>>
    /\ NoFault

\* Mutant: a result is a success.
PutResult_AnyResult(t) ==
    /\ pc[t] = "sent"
    /\ Len(channel[t[1]]) < Capacity(t[1])
    /\ channel' = [channel EXCEPT ![t[1]] = Append(@, Result(job[t], got[t] # "error"))]
    /\ Goto(t, "take")
    /\ UNCHANGED <<callVars, breaker, token, issued, taken, legacyVars, at, job, got, jobs, rest, results, answer>>
    /\ NoFault

\* Mutant: the channel of results has no buffer, and is read only after the workers are done.
PutResult_Unbuffered(t) ==
    /\ pc[t] = "sent"
    /\ pc[Main(t[1])] # "wait"
    /\ channel' = [channel EXCEPT ![t[1]] = Append(@, Result(job[t], got[t] = "ok"))]
    /\ Goto(t, "take")
    /\ UNCHANGED <<callVars, breaker, token, issued, taken, legacyVars, at, job, got, jobs, rest, results, answer>>
    /\ NoFault

\* A worker sends a result, as soon as the channel has room.
PutResult(t) ==
    /\ pc[t] = "sent"
    /\ Len(channel[t[1]]) < Capacity(t[1])
    /\ channel' = [channel EXCEPT ![t[1]] = Append(@, Result(job[t], got[t] = "ok"))]
    /\ Goto(t, "take")
    /\ UNCHANGED <<callVars, breaker, token, issued, taken, legacyVars, at, job, got, jobs, rest, results, answer>>
    /\ NoFault

TransferWorker(t) == t[2] # 0 /\ (TakeJob(t) \/ PutResult(t))

BulkTransfer(c) ==
    InitiateBulkTransfer(c) \/ NativeBulk(c) \/ SplitAndProcessBulk(c) \/ CollectResults(c)

-----------------------------------------------------------------------------
(* The legacy VFD transfer service *)

SetWriter(r, c) == writer' = [writer EXCEPT ![r] = c]

\* BEGIN and INSERT: under the unique index the insert waits for an open transaction that
\* has inserted the reference, and fails if it is committed.
CreateRecord(c) ==
    LET t == Main(c)
        r == job[t]
    IN
    /\ pc[t] = "create"
    /\ writer[r] = Nobody
    /\ \/ r \notin rows /\ SetWriter(r, c) /\ Goto(t, Submission(t)) /\ UNCHANGED answer
       \/ r \in rows /\ UNCHANGED writer /\ Return(c, "error")
    /\ UNCHANGED <<callVars, breaker, token, issued, taken, rows, at, job, got, bulkVars>>
    /\ NoFault

\* Mutant: a transfer that failed is committed too.
FinishRecord_CommitFailed(c) ==
    LET t == Main(c) IN
    /\ Op(c) = "legacy"
    /\ pc[t] = "sent"
    /\ SetWriter(job[t], Nobody)
    /\ rows' = rows \cup {job[t]}
    /\ Return(c, got[t])
    /\ NoFault
    /\ UNCHANGED <<callVars, breaker, token, issued, taken, at, job, got, bulkVars>>

\* The row is updated and committed, or rolled back after an error of VFD; a commit may
\* fail, or its reply be lost.
FinishRecord(c) ==
    LET t == Main(c) IN
    /\ Op(c) = "legacy"
    /\ pc[t] = "sent"
    /\ SetWriter(job[t], Nobody)
    /\ \/ got[t] = "ok" /\ rows' = rows \cup {job[t]} /\ Return(c, "ok") /\ NoFault
       \/ got[t] = "error" /\ UNCHANGED rows /\ Return(c, "error") /\ NoFault
       \/ got[t] = "ok" /\ rows' \in {rows, rows \cup {job[t]}} /\ Return(c, "error") /\ Fault(c)
    /\ UNCHANGED <<callVars, breaker, token, issued, taken, at, job, got, bulkVars>>

LegacyTransfer(c) == CreateRecord(c) \/ FinishRecord(c)

-----------------------------------------------------------------------------
Step(t) ==
    \/ Submit(t)
    \/ TransferWorker(t)
    \/ t[2] = 0 /\ (\/ InitiateTransfer(t[1])
                    \/ Enquire(t[1])
                    \/ AttemptEnquiry(t[1])
                    \/ BulkTransfer(t[1])
                    \/ LegacyTransfer(t[1]))

CoolDown(p) ==
    /\ Cool(p)
    /\ UNCHANGED <<callVars, token, issued, taken, legacyVars, pc, at, job, got, bulkVars, answer>>
    /\ NoFault

Next == (\E t \in Threads : Step(t)) \/ (\E p \in Names : CoolDown(p))

Spec == Init /\ [][Next]_vars

\* A request ends, with an error after the client's timeout of 30 seconds if not before, so
\* some goroutine of a call that can go on does.  A breaker that nobody asks need not cool.
FairSpec == Spec /\ \A c \in Calls : WF_vars(\E w \in 0 .. Workers : Step(<<c, w>>))

-----------------------------------------------------------------------------
(* Properties *)

Labels == {"allow", "dispatch", "create", "enquire", "token", "fetch", "send", "sent", "native", "chunk",
           "wait", "idle", "take", "exited", "done"}
ResultType == [ref : Refs, success : BOOLEAN]

\* Every variable keeps its type, and no channel holds more than it has room for.
TypeOK ==
    /\ chain \in {Order(config) : config \in Configs}
    /\ breaker \in [Names -> BreakerType]
    /\ token \in BOOLEAN
    /\ issued \in Nat
    /\ taken \in [Names -> [Refs -> Calls \cup {Nobody}]]
    /\ rows \subseteq Refs
    /\ writer \in [Refs -> Calls \cup {Nobody}]
    /\ req \in Workloads
    /\ pc \in [Threads -> Labels]
    /\ at \in [Calls -> 1 .. Len(chain)]
    /\ job \in [Threads -> Refs \cup {NoRef}]
    /\ got \in [Threads -> {"none", "ok", "refused", "error"}]
    /\ jobs \in [Calls -> Seq(Refs)]
    /\ channel \in [Calls -> Seq(ResultType)]
    /\ \A c \in Calls : Len(channel[c]) <= Capacity(c)
    /\ rest \in [Calls -> Seq(Refs)]
    /\ results \in [Calls -> Seq(ResultType)]
    /\ answer \in [Calls -> {"none", "ok", "refused", "error", "complete", "partial", "failed", "processing"}]
    /\ faults \in 0 .. MaxFaults
    /\ hurt \subseteq Calls

\* The providers that took a reference from call c.
TakenFrom(c, r) == {p \in Names : taken[p][r] = c}

\* What a call returns is what happened: a single transfer that returned a result with
\* success was taken by one provider and any other by none; a transfer of a bulk call is
\* reported as successful only if it was taken, and as failed only if not.  Only a lost
\* reply, or a reference that a bulk call names twice, can make a call say otherwise
\* (tryTransfer, transferWorker, the clients).
AnswerIsTrue ==
    \A c \in Calls \ hurt :
        /\ Op(c) = "single" /\ answer[c] # "none" =>
               LET takers == TakenFrom(c, Head(Items(c))) IN
               IF answer[c] = "ok" THEN \E p \in Names : takers = {p} ELSE takers = {}
        /\ IsInjective(Items(c)) => \A i \in DOMAIN results[c] :
               results[c][i].success <=> TakenFrom(c, results[c][i].ref) # {}

\* No transfer of a bulk call that names each reference once has two results, and through a
\* pool of workers each has one when the call returns (executeBulkAsConcurrentSingles).
OneResultPerItem ==
    \A c \in Calls :
        Op(c) = "bulk" /\ IsInjective(Items(c)) =>
            /\ \A i, j \in DOMAIN results[c] : results[c][i].ref = results[c][j].ref => i = j
            /\ ~HasBulk(Default) /\ pc[Main(c)] = "done" =>
                   {results[c][i].ref : i \in DOMAIN results[c]} = ToSet(Items(c))

\* One access token is fetched, however many goroutines find that there is none
\* (fetchNewToken's second look under the lock).
TokenFetchedOnce == issued <= 1

\* A committed legacy record is a transfer that VFD took; and a legacy call that met no
\* fault returned ok exactly if VFD took its transfer, which is then on record
\* (the rollbacks of VFDTransferService.InitiateTransfer).
RecordedMeansTaken ==
    /\ \A r \in rows : taken[Vfd][r] # Nobody
    /\ \A c \in Calls \ hurt :
           Op(c) = "legacy" /\ answer[c] # "none" =>
               (answer[c] = "ok" <=> taken[Vfd][Head(Items(c))] = c)
               /\ (answer[c] = "ok" => Head(Items(c)) \in rows)

\* Every call returns: the workers drain the jobs, never block on their results, and the
\* chunks come to an end.
CallsReturn == \A c \in Calls : <>(Op(c) = "idle" \/ answer[c] # "none")

\* A half-open breaker decides: the probe closes it or opens it again (failures are not
\* reset before a success).
ProbeDecides ==
    \A p \in Names : breaker[p].state = "half-open" ~> breaker[p].state # "half-open"
=============================================================================
