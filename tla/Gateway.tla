------------------------------- MODULE Gateway -------------------------------
(***************************************************************************)
(* The LLM gateway: the client made on first use (di/lazy_client.go), the  *)
(* failover over an ordered chain of providers, the resilient client that  *)
(* refreshes the credentials of one provider once, the files a request     *)
(* uploads and removes again, and the access token of Vertex AI, shared by *)
(* the callers of a process in memory and by the processes of a user in a  *)
(* file.  The engine retries what the gateway reports (RecoveryStep); the  *)
(* other callers, the summarizer for one, do not.  A caller makes one turn.*)
(*                                                                         *)
(* A provider is "vertex" (the Gemini client, whose SDK client holds the   *)
(* token it was made with) or "files" (an OpenAI-compatible client with a  *)
(* fixed key that uploads media).  An error is the set of the sentinels    *)
(* that errors.Is finds in it.  A token is the number of the period in     *)
(* which gcloud issued it: the provider accepts that of the current one.   *)
(***************************************************************************)
EXTENDS Naturals, Sequences

CONSTANTS
  Callers,     \* goroutines that call Generate
  Engine,      \* the one that runs the turn engine
  Media,       \* the media parts of the engine's history
  MaxRetries,  \* DefaultRetryPolicy.MaxRetries
  MaxEpoch     \* periods of a token in a behaviour

ASSUME GatewayAssumption ==
  /\ Engine \in Callers /\ "none" \notin Callers
  /\ MaxRetries \in Nat /\ MaxEpoch \in Nat \ {0}

VARIABLES
  chain,      \* the kinds of the providers, in order
  failover,   \* FAILOVER_ORDER is set: a failoverGateway is in front
  keyBad,     \* the fixed key is refused
  client,     \* lazyClient: "none", "ready", "broken"
  pc,         \* pc[c]: where the caller's goroutine is
  k,          \* k[c]: the provider in turn
  attempt,    \* attempt[c]: 0, or 1 after a refresh
  retry,      \* retry[c]: RetryCount
  err,        \* err[c]: the sentinels of the error, {} for none
  sent,       \* sent[c][i]: SendChat calls to provider i in this turn
  cancelled,  \* cancelled[c]: its context
  file,       \* file[c]: the parts whose file ids turnAssets holds
  failed,     \* failed[c]: RefreshAuth returned an error
  fresh,      \* fresh[c]: the period in which RefreshAuth last succeeded
  epoch,      \* the current period of the tokens
  token,      \* VertexAuth.Token, 0 for none
  lock,       \* who holds its mutex while gcloud runs
  cache,      \* the token in the file of the user, 0 for none or too old
  sdk,        \* the token of the SDK client
  held,       \* held[c]: the token of the request under way, or 0
  got         \* got[c]: the token of the refresh under way, or 0

config == <<chain, failover, keyBad>>
turn   == <<k, attempt, retry, err>>
marks  == <<failed, fresh>>
auth   == <<token, lock, cache, sdk, got>>
world  == <<epoch, cancelled>>
vars   == <<config, client, pc, turn, sent, file, held, marks, auth, world>>

N == Len(chain)
Kind(c) == chain[k[c]]
Parts(c) == IF c = Engine THEN Media ELSE {}
Goto(c, p) == pc' = [pc EXCEPT ![c] = p]
Set(f, c, v) == [f EXCEPT ![c] = v]

(* What Classify makes of what a request can meet.                         *)
Classify ==
  [unauthorized |-> {"auth"},      payment  |-> {"quota"},
   tooMany      |-> {"rateLimit"}, noQuota  |-> {"quota"},
   serverError  |-> {"transient"}, badRequest |-> {"terminal"},
   filtered     |-> {"filter"},    timeout  |-> {"transient"},
   reset        |-> {"transient"}, cutShort |-> {"transient"},
   canceled     |-> {"canceled"},  unknown  |-> {"terminal"}]

IsTransient(e) == e \cap {"transient", "rateLimit"} # {}
IsFatal(e)     == e \cap {"terminal", "filter", "auth"} # {}

Chains == {<<"vertex">>, <<"files">>, <<"vertex", "files">>, <<"files", "vertex">>}

Init ==
  /\ chain \in Chains
  /\ failover \in BOOLEAN /\ (failover \/ N = 1)
  /\ keyBad \in BOOLEAN /\ (keyBad => \E i \in 1..N : chain[i] = "files")
  /\ client = "none"
  /\ pc = [c \in Callers |-> "idle"] /\ k = [c \in Callers |-> 1]
  /\ attempt = [c \in Callers |-> 0] /\ retry = [c \in Callers |-> 0]
  /\ err = [c \in Callers |-> {}]
  /\ sent = [c \in Callers |-> [i \in 1..N |-> 0]]
  /\ cancelled = [c \in Callers |-> FALSE]
  /\ file = [c \in Callers |-> {}]
  /\ failed = [c \in Callers |-> FALSE] /\ fresh = [c \in Callers |-> 0]
  /\ epoch = 1 /\ cache \in {0, 1} /\ token = 0 /\ sdk = 0 /\ lock = "none"
  /\ held = [c \in Callers |-> 0] /\ got = [c \in Callers |-> 0]

(* What the variables hold: the configuration, the calls, the tokens.      *)
ConfigType ==
  /\ chain \in Chains /\ failover \in BOOLEAN /\ keyBad \in BOOLEAN
  /\ client \in {"none", "ready", "broken"}

CallType ==
  /\ pc \in [Callers -> {"idle", "provider", "send", "upload", "request", "release", "settle",
                        "invalidate", "apply", "gcloud", "store", "init", "error", "recover",
                        "ok", "failed"}]
  /\ err \in [Callers -> SUBSET {"auth", "quota", "rateLimit", "transient", "terminal",
                                 "filter", "canceled"}]

CountType ==
  /\ k \in [Callers -> 1..N] /\ attempt \in [Callers -> {0, 1}]
  /\ retry \in [Callers -> 0..MaxRetries]
  /\ sent \in [Callers -> [1..N -> Nat]]
  /\ cancelled \in [Callers -> BOOLEAN] /\ failed \in [Callers -> BOOLEAN]
  /\ file \in [Callers -> SUBSET Media]

TokenType ==
  /\ epoch \in 1..MaxEpoch /\ lock \in Callers \cup {"none"}
  /\ cache \in 0..epoch /\ token \in 0..epoch /\ sdk \in 0..epoch
  /\ held \in [Callers -> 0..epoch] /\ got \in [Callers -> 0..epoch]
  /\ fresh \in [Callers -> 0..epoch]

TypeOK == ConfigType /\ CallType /\ CountType /\ TokenType

-----------------------------------------------------------------------------
(* The first call makes the client, once; with Vertex AI that needs a      *)
(* token.  If it fails, every call of the process fails.                   *)
Construct(c) ==
  /\ pc[c] = "idle" /\ client = "none"
  /\ \/ /\ \E i \in 1..N : chain[i] = "vertex"
        /\ \/ client' = "broken" /\ cache = 0 /\ UNCHANGED auth
           \/ /\ client' = "ready"
              /\ token' = (IF cache # 0 THEN cache ELSE epoch) /\ sdk' = token'
              /\ cache' \in {cache, token'}
              /\ UNCHANGED <<lock, got>>
     \/ /\ \A i \in 1..N : chain[i] # "vertex"
        /\ client' = "ready" /\ UNCHANGED auth
  /\ UNCHANGED <<config, pc, turn, sent, file, held, marks, world>>

Generate(c) ==
  /\ pc[c] = "idle" /\ client # "none"
  /\ \/ client = "ready" /\ Goto(c, "provider") /\ UNCHANGED err
     \/ client = "broken" /\ Goto(c, "recover") /\ err' = Set(err, c, {"terminal"})
  /\ UNCHANGED <<config, client, k, attempt, retry, sent, file, held, marks, auth, world>>

(* The loop of failoverGateway.Generate looks at the context first.        *)
Provider(c) ==
  /\ pc[c] = "provider"
  /\ \/ failover /\ cancelled[c]
        /\ Goto(c, "recover") /\ err' = Set(err, c, {"canceled"}) /\ UNCHANGED attempt
     \/ ~(failover /\ cancelled[c])
        /\ Goto(c, "send") /\ attempt' = Set(attempt, c, 0) /\ UNCHANGED err
  /\ UNCHANGED <<config, client, k, retry, sent, file, held, marks, auth, world>>

SendChat(c) ==
  /\ pc[c] = "send"
  /\ sent' = [sent EXCEPT ![c][k[c]] = @ + 1]
  /\ err' = Set(err, c, {})
  /\ IF Kind(c) = "files"
       THEN Goto(c, "upload") /\ UNCHANGED held
       ELSE Goto(c, "request") /\ held' = Set(held, c, sdk)
  /\ UNCHANGED <<config, client, k, attempt, retry, file, marks, auth, world>>

-----------------------------------------------------------------------------
(* The files of a request.  An upload that fails may have left a file whose*)
(* id the client never saw; a file that cannot be deleted is left too.     *)

(* Mutant: a failed upload returns without giving the others back.         *)
Upload_Keeps(c) ==
  /\ pc[c] = "upload"
  /\ \/ /\ file[c] = Parts(c) /\ Goto(c, "request") /\ UNCHANGED <<file, err>>
     \/ \E p \in Parts(c) \ file[c] :
          file' = Set(file, c, file[c] \cup {p}) /\ UNCHANGED <<pc, err>>
     \/ /\ Parts(c) # file[c]
        /\ \E raw \in {"serverError", "timeout", "tooMany", "unknown", "canceled"} :
             /\ raw = "canceled" => cancelled[c]
             /\ err' = Set(err, c, Classify[raw])
        /\ Goto(c, "settle") /\ UNCHANGED file
  /\ UNCHANGED <<config, client, k, attempt, retry, sent, held, marks, auth, world>>

(* uploadMediaParts, and what is checked before it.  The status is in the  *)
(* text of the error only, where Classify finds no refused key.            *)
Upload(c) ==
  /\ pc[c] = "upload"
  /\ \/ /\ file[c] = Parts(c) /\ Goto(c, "request") /\ UNCHANGED <<file, err>>
     \/ \E p \in Parts(c) \ file[c] :
          file' = Set(file, c, file[c] \cup {p}) /\ UNCHANGED <<pc, err>>
     \/ /\ Parts(c) # file[c]
        /\ \E raw \in {"serverError", "timeout", "tooMany", "unknown", "canceled"} :
             /\ raw = "canceled" => cancelled[c]
             /\ err' = Set(err, c, Classify[raw])
        /\ Goto(c, "release") /\ UNCHANGED file
  /\ UNCHANGED <<config, client, k, attempt, retry, sent, held, marks, auth, world>>

(* turnAssets.release, under a context of its own: each file is asked for  *)
(* once, whatever became of the one before.                                *)
Release(c) ==
  /\ pc[c] = "release"
  /\ \/ \E p \in file[c] : file' = Set(file, c, file[c] \ {p}) /\ UNCHANGED pc
     \/ file[c] = {} /\ Goto(c, "settle") /\ UNCHANGED file
  /\ UNCHANGED <<config, client, turn, sent, held, marks, auth, world>>

(* The provider: a request is refused for its credentials, or answered, or *)
(* fails in whatever way.                                                  *)
Refused(c) == IF Kind(c) = "vertex" THEN held[c] < epoch ELSE keyBad

Outcomes(c) ==
  IF Refused(c)
    THEN {"unauthorized"}
    ELSE {raw \in DOMAIN Classify : raw = "canceled" => cancelled[c]} \ {"unauthorized"}

Request(c) ==
  /\ pc[c] = "request"
  /\ err' \in {Set(err, c, Classify[raw]) : raw \in Outcomes(c)}
              \cup (IF Refused(c) THEN {} ELSE {err})
  /\ held' = Set(held, c, 0)
  /\ Goto(c, IF Kind(c) = "files" THEN "release" ELSE "settle")
  /\ UNCHANGED <<config, client, k, attempt, retry, sent, file, marks, auth, world>>

-----------------------------------------------------------------------------
(* resilientClient: a refusal of the credentials is answered by a refresh  *)
(* and one more attempt; with a fixed key there is nothing to refresh.     *)
Settle(c) ==
  /\ pc[c] = "settle"
  /\ \/ err[c] = {} /\ Goto(c, "ok") /\ UNCHANGED attempt
     \/ /\ "auth" \in err[c] /\ attempt[c] = 0
        /\ IF Kind(c) = "vertex" THEN Goto(c, "invalidate") /\ UNCHANGED attempt
             ELSE Goto(c, "send") /\ attempt' = Set(attempt, c, 1)
     \/ /\ err[c] # {} /\ ("auth" \notin err[c] \/ attempt[c] = 1)
        /\ Goto(c, "error") /\ UNCHANGED attempt
  /\ UNCHANGED <<config, client, k, retry, err, sent, file, held, marks, auth, world>>

(* Mutant: Invalidate forgets the token but leaves the file.               *)
Invalidate_Memory(c) ==
  /\ pc[c] = "invalidate" /\ lock = "none"
  /\ token' = 0 /\ Goto(c, "apply")
  /\ UNCHANGED <<config, client, turn, sent, file, held, marks, lock, cache, sdk, got, world>>

Invalidate(c) ==
  /\ pc[c] = "invalidate" /\ lock = "none"
  /\ token' = 0 /\ cache' = 0 /\ Goto(c, "apply")
  /\ UNCHANGED <<config, client, turn, sent, file, held, marks, lock, sdk, got, world>>

(* getToken holds the mutex: memory, then the file, then gcloud.           *)
Apply(c) ==
  /\ pc[c] = "apply" /\ lock = "none"
  /\ \/ /\ token # 0
        /\ got' = Set(got, c, token) /\ Goto(c, "init") /\ UNCHANGED <<token, lock>>
     \/ /\ token = 0 /\ cache # 0
        /\ token' = cache /\ got' = Set(got, c, cache) /\ Goto(c, "init")
        /\ UNCHANGED lock
     \/ /\ token = 0 /\ cache = 0
        /\ lock' = c /\ Goto(c, "gcloud") /\ UNCHANGED <<token, got>>
  /\ UNCHANGED <<config, client, turn, sent, file, held, marks, cache, sdk, world>>

Gcloud(c) ==
  /\ pc[c] = "gcloud"
  /\ \/ got' = Set(got, c, epoch) /\ Goto(c, "store") /\ UNCHANGED <<lock, failed>>
     \/ /\ lock' = "none" /\ Goto(c, "error") /\ failed' = Set(failed, c, TRUE)
        /\ UNCHANGED got
  /\ UNCHANGED <<config, client, turn, sent, file, held, fresh, token, cache, sdk, world>>

(* writeCacheFile is best effort.                                          *)
Store(c) ==
  /\ pc[c] = "store"
  /\ cache' \in {cache, got[c]} /\ token' = got[c] /\ lock' = "none"
  /\ Goto(c, "init")
  /\ UNCHANGED <<config, client, turn, sent, file, held, marks, sdk, got, world>>

(* initSDK makes a client with the token; RefreshAuth is done.             *)
InitSDK(c) ==
  /\ pc[c] = "init"
  /\ \/ /\ sdk' = got[c] /\ fresh' = Set(fresh, c, epoch)
        /\ attempt' = Set(attempt, c, 1) /\ Goto(c, "send") /\ UNCHANGED failed
     \/ /\ failed' = Set(failed, c, TRUE) /\ Goto(c, "error")
        /\ UNCHANGED <<sdk, fresh, attempt>>
  /\ got' = Set(got, c, 0)
  /\ UNCHANGED <<config, client, k, retry, err, sent, file, held, token, lock, cache, world>>

-----------------------------------------------------------------------------
(* failoverGateway: no quota, or a failure that may pass, is a reason to   *)
(* try the next provider; when there is none, the error becomes terminal.  *)
Error(c) ==
  /\ pc[c] = "error"
  /\ \/ /\ failover /\ ("quota" \in err[c] \/ IsTransient(err[c]))
        /\ \/ /\ k[c] < N
              /\ k' = Set(k, c, k[c] + 1) /\ Goto(c, "provider") /\ UNCHANGED err
           \/ /\ k[c] = N /\ err' = Set(err, c, err[c] \cup {"terminal"})
              /\ Goto(c, "recover") /\ UNCHANGED k
     \/ /\ ~(failover /\ ("quota" \in err[c] \/ IsTransient(err[c])))
        /\ Goto(c, "recover") /\ UNCHANGED <<k, err>>
  /\ UNCHANGED <<config, client, attempt, retry, sent, file, held, marks, auth, world>>

(* InferenceStep adds a category, RecoveryStep and its policy decide, and  *)
(* the wait before the retry ends with the context.                        *)
(* Mutant: the policy asks IsTransient before IsFatal.                     *)
Retries_TransientFirst(c) ==
  LET e == err[c] \cup {IF IsTransient(err[c]) THEN "transient" ELSE "terminal"} IN
  /\ c = Engine /\ retry[c] < MaxRetries /\ ~cancelled[c]
  /\ e \cap {"auth", "filter"} = {} \/ "rateLimit" \in e
  /\ IsTransient(e)

Retries(c) ==
  LET e == err[c] \cup {IF IsTransient(err[c]) THEN "transient" ELSE "terminal"} IN
  /\ c = Engine /\ retry[c] < MaxRetries /\ ~cancelled[c]
  /\ e \cap {"auth", "filter"} = {} \/ "rateLimit" \in e
  /\ ~IsFatal(e) /\ IsTransient(e)

Recover(c) ==
  /\ pc[c] = "recover"
  /\ IF Retries(c)
       THEN /\ retry' = Set(retry, c, retry[c] + 1)
            /\ k' = Set(k, c, 1) /\ Goto(c, "provider")
       ELSE Goto(c, "failed") /\ UNCHANGED <<k, retry>>
  /\ UNCHANGED <<config, client, attempt, err, sent, file, held, marks, auth, world>>

-----------------------------------------------------------------------------
(* Around the callers.                                                     *)

Cancel(c) ==
  /\ pc[c] \notin {"ok", "failed"} /\ ~cancelled[c]
  /\ cancelled' = Set(cancelled, c, TRUE)
  /\ UNCHANGED <<config, client, pc, turn, sent, file, held, marks, auth, epoch>>

(* Tokens live for minutes after gcloud printed them: none expires while   *)
(* somebody who refreshes takes it from gcloud, the memory or the file.    *)
Expire ==
  /\ epoch < MaxEpoch /\ epoch' = epoch + 1
  /\ \A c \in Callers : pc[c] \notin {"apply", "store", "init"}
  /\ UNCHANGED <<config, client, pc, turn, sent, file, held, marks, auth, cancelled>>

(* The file of the user is 55 minutes old, or another process removes it  *)
(* when it is refused, or stores there what gcloud has given it.           *)
Others ==
  /\ cache' \in {0, epoch} \ {cache}
  /\ UNCHANGED <<config, client, pc, turn, sent, file, held, marks, token, lock, sdk, got, world>>

Caller(c) ==
  \/ Construct(c) \/ Generate(c) \/ Provider(c) \/ SendChat(c)
  \/ Upload(c) \/ Request(c) \/ Release(c) \/ Settle(c)
  \/ Invalidate(c) \/ Apply(c) \/ Gcloud(c) \/ Store(c) \/ InitSDK(c)
  \/ Error(c) \/ Recover(c)

Next ==
  \/ \E c \in Callers : Caller(c) \/ Cancel(c)
  \/ Expire \/ Others

Spec == Init /\ [][Next]_vars

-----------------------------------------------------------------------------
(* What must hold.                                                         *)

(* An expired token is never the user's problem: a call reports a refusal  *)
(* of its credentials only if the refresh failed, the fixed key is bad, or *)
(* the token was refreshed and has expired as well, whoever else refreshes,*)
(* stores or reads a token at the same time.                               *)
Excused(c) ==
  IF Kind(c) = "files" THEN keyBad
  ELSE failed[c] \/ (fresh[c] # 0 /\ epoch > fresh[c])

AuthRecovers ==
  \A c \in Callers : pc[c] = "failed" /\ "auth" \in err[c] => Excused(c)

(* A file is at the provider exactly as long as it is needed: a request    *)
(* goes out with all its files, and when SendChat has returned, in         *)
(* whatever way, the deletion of each file it knows of has been asked for. *)
FilesReleased ==
  \A c \in Callers :
    /\ pc[c] = "request" /\ Kind(c) = "files" => file[c] = Parts(c)
    /\ pc[c] \notin {"upload", "request", "release"} => file[c] = {}

(* Failing over and retrying do not multiply: with a chain the engine goes *)
(* through it once, however the providers failed, without one it tries     *)
(* MaxRetries more times, and only a refusal of the credentials makes a    *)
(* try two requests.  A chain that is given up for a failure that might    *)
(* pass was tried to its end.                                              *)
ChainTriedOnce ==
  \A c \in Callers :
    /\ \A i \in 1..N : sent[c][i] <= 2 * (IF failover \/ c # Engine THEN 1 ELSE MaxRetries + 1)
    /\ failover /\ pc[c] = "failed" /\ (IsTransient(err[c]) \/ "quota" \in err[c])
         => \A i \in 1..N : sent[c][i] > 0

-----------------------------------------------------------------------------
(* Why it holds: what every step of every caller preserves.                *)

Refreshing == {"invalidate", "apply", "gcloud", "store", "init"}
Sending    == {"upload", "request", "release", "settle"} \cup Refreshing

(* Before the client is made nobody is in a call; a caller starts at the   *)
(* first provider, without an error.                                       *)
ClientInv ==
  /\ client = "none" => \A c \in Callers : pc[c] = "idle" /\ fresh[c] = 0
  /\ \A c \in Callers : pc[c] = "idle" => /\ k[c] = 1 /\ err[c] = {}
                                          /\ \A i \in 1..N : sent[c][i] = 0

(* Only a files provider uploads, and only its requests carry files.       *)
FilesOf(c) ==
  /\ pc[c] \in {"upload", "release"} => Kind(c) = "files"
  /\ pc[c] = "request" => file[c] = IF Kind(c) = "files" THEN Parts(c) ELSE {}
  /\ pc[c] \notin {"upload", "request", "release"} => file[c] = {}

(* The provider in turn is asked at most twice in a try, the ones behind   *)
(* it not at all; only the engine tries again, and only without a chain.   *)
BudgetOf(c) ==
  /\ failover \/ c # Engine => retry[c] = 0
  /\ pc[c] \in Refreshing => attempt[c] = 0
  /\ pc[c] \in {"idle", "provider"} => sent[c][k[c]] <= 2 * retry[c]
  /\ pc[c] = "send"    => sent[c][k[c]] <= 2 * retry[c] + attempt[c]
  /\ pc[c] \in Sending => sent[c][k[c]] <= 2 * retry[c] + attempt[c] + 1
  /\ \A i \in 1..N : sent[c][i] <= 2 * retry[c] + 2
  /\ \A i \in 1..N : i > k[c] => sent[c][i] <= 2 * retry[c]

(* The providers before the one in turn were asked; what is left of a      *)
(* chain when it is given up is fatal, so it is not tried again.           *)
VisitsOf(c) ==
  /\ \A i \in 1..N : i < k[c] => sent[c][i] > 0
  /\ pc[c] \in Sending \cup {"error"} => sent[c][k[c]] > 0
  /\ failover /\ pc[c] \in {"recover", "failed"} =>
       /\ IsTransient(err[c]) => "terminal" \in err[c]
       /\ IsTransient(err[c]) \/ "quota" \in err[c] =>
            \A i \in 1..N : sent[c][i] > 0

(* A refused token leaves memory and file before the next is looked for,   *)
(* so what a refresh finds is of the current period: the SDK client never  *)
(* goes back behind a refresh that has succeeded.                          *)
TokensOf(c) ==
  /\ pc[c] = "apply" => token \in {0, epoch} /\ cache \in {0, epoch}
  /\ pc[c] \in {"store", "init"} => got[c] = epoch
  /\ fresh[c] <= sdk
  /\ pc[c] = "request" /\ Kind(c) = "vertex" => fresh[c] <= held[c]

(* A refusal is the only error there is; it is settled by a second attempt,*)
(* which follows a refresh.                                                *)
RefusalOf(c) ==
  /\ "auth" \in err[c] => err[c] = {"auth"} /\ pc[c] # "provider"
  /\ pc[c] \in {"upload", "request"} => err[c] = {}
  /\ "auth" \in err[c] /\ Kind(c) = "files" => keyBad
  /\ "auth" \in err[c] /\ Kind(c) = "vertex" /\ pc[c] = "settle" => epoch > fresh[c]
  /\ pc[c] \in {"send"} \cup Sending /\ attempt[c] = 1 /\ Kind(c) = "vertex"
       => fresh[c] # 0
  /\ "auth" \in err[c] /\ pc[c] \in {"error", "recover", "failed"} => Excused(c)

FilesInv   == \A c \in Callers : FilesOf(c)
BudgetInv  == \A c \in Callers : BudgetOf(c)
VisitsInv  == \A c \in Callers : VisitsOf(c)
TokensInv  == \A c \in Callers : TokensOf(c)
RefusalInv == \A c \in Callers : RefusalOf(c)

IInv == /\ ClientInv /\ FilesInv /\ BudgetInv /\ VisitsInv
        /\ TokensInv /\ RefusalInv
=============================================================================
