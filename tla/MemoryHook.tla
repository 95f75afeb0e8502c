------------------------------ MODULE MemoryHook ------------------------------
(***************************************************************************)
(* The memory of a session (internal/agent/memory), in the tier that       *)
(* learns in batches: every turn appends an episode to a bounded buffer,   *)
(* and the end of a chat claims the buffer and sends it, without holding   *)
(* the lock, to the memory server through the client of McpStdio.  Turns   *)
(* and flushes may overlap, the configuration is reloaded, and the client  *)
(* is closed by the container's cleanup at any time.                       *)
(*                                                                         *)
(* An episode is a number.  Of a flush's result only success and failure   *)
(* count; the report of failures and the two other tiers are left out.     *)
(***************************************************************************)
EXTENDS McpStdio, Sequences

CONSTANTS
  MaxBuffer,       \* maxBufferEpisodes
  MaxEpisodes,     \* bound: turns with something to learn
  MaxReconfigures  \* bound: reloads that change whether memory is enabled

ASSUME HookAssumption ==
  MaxBuffer \in Nat \ {0} /\ MaxEpisodes \in Nat /\ MaxReconfigures \in Nat

VARIABLES
  enabled,    \* the master switch
  reloads,    \* how often it was changed
  turns,      \* episodes so far
  buffer,     \* those in the buffer of the session
  flush,      \* flush[c]: "idle", "dropping", "claimed", "calling", "done"
  batch,      \* batch[c]: what c has claimed
  stored,     \* stored[e]: how often the server has stored e
  evicted,    \* those that fell out of the full buffer, and were counted
  discarded   \* those a session dropped that it found disabled

hookVars == <<enabled, reloads, turns, buffer, flush, batch, stored, evicted,
              discarded>>
vars     == <<mcpVars, hookVars>>

Episodes    == 1..MaxEpisodes
Contents(s) == {s[i] : i \in DOMAIN s}

Init ==
  /\ McpInit
  /\ enabled = TRUE /\ reloads = 0 /\ turns = 0 /\ buffer = <<>>
  /\ flush = [c \in Callers |-> "idle"] /\ batch = [c \in Callers |-> <<>>]
  /\ stored = [e \in Episodes |-> 0] /\ evicted = {} /\ discarded = {}

-----------------------------------------------------------------------------

(* bufferAppend: the oldest are evicted until the buffer fits, after a     *)
(* flush that failed more than one.  Without a client nothing is learned.    *)
AfterTurn ==
  /\ client = "ready" /\ enabled /\ turns < MaxEpisodes /\ turns' = turns + 1
  /\ LET all  == Append(buffer, turns + 1)
         over == IF Len(all) > MaxBuffer THEN Len(all) - MaxBuffer ELSE 0
     IN /\ buffer' = SubSeq(all, over + 1, Len(all))
        /\ evicted' = evicted \cup Contents(SubSeq(all, 1, over))
  /\ UNCHANGED <<mcpVars, enabled, reloads, flush, batch, stored, discarded>>

Reconfigure ==
  /\ reloads < MaxReconfigures /\ reloads' = reloads + 1 /\ enabled' = ~enabled
  /\ UNCHANGED <<mcpVars, turns, buffer, flush, batch, stored, evicted, discarded>>

(* claimEpisodes: the buffer is copied and emptied under one lock.  A       *)
(* disabled session drops it; the switch is read before the lock is taken. *)
(* Mutant: it is emptied only when the call has succeeded.                 *)
Claim_Copy(c) ==
  /\ flush[c] = "idle" /\ enabled /\ buffer # <<>>
  /\ flush' = [flush EXCEPT ![c] = "claimed"]
  /\ batch' = [batch EXCEPT ![c] = buffer]
  /\ UNCHANGED <<mcpVars, enabled, reloads, turns, stored, evicted, buffer, discarded>>

Claim(c) ==
  /\ client \in {"ready", "failed"} /\ flush[c] = "idle"
  /\ \/ /\ ~enabled /\ flush' = [flush EXCEPT ![c] = "dropping"]
        /\ UNCHANGED <<batch, buffer>>
     \/ /\ enabled /\ buffer = <<>> /\ flush' = [flush EXCEPT ![c] = "done"]
        /\ UNCHANGED <<batch, buffer>>
     \/ /\ enabled /\ buffer # <<>>
        /\ flush' = [flush EXCEPT ![c] = "claimed"]
        /\ batch' = [batch EXCEPT ![c] = buffer] /\ buffer' = <<>>
  /\ UNCHANGED <<mcpVars, enabled, reloads, turns, stored, evicted, discarded>>

Drop(c) ==
  /\ flush[c] = "dropping" /\ flush' = [flush EXCEPT ![c] = "done"]
  /\ discarded' = discarded \cup Contents(buffer) /\ buffer' = <<>>
  /\ UNCHANGED <<mcpVars, enabled, reloads, turns, batch, stored, evicted>>

LearnBatch(c) ==
  /\ flush[c] = "claimed" /\ Call(c)
  /\ flush' = [flush EXCEPT ![c] = "calling"]
  /\ UNCHANGED <<enabled, reloads, turns, buffer, batch, stored, evicted, discarded>>

(* The server stores the episodes of the batch it accepts.                 *)
Store(c) ==
  /\ Handle(c)
  /\ stored' = [e \in Episodes |->
       IF reply'[c] = "ok" /\ e \in Contents(batch[c]) THEN stored[e] + 1 ELSE stored[e]]
  /\ UNCHANGED <<enabled, reloads, turns, buffer, flush, batch, evicted, discarded>>

(* restoreOnFailure puts the batch back in front, past the bound of the    *)
(* buffer; finalizeOnSuccess leaves what came meanwhile.                   *)
(* Mutant: the entry of the session is deleted on success.                 *)
Settle_Delete(c) ==
  /\ flush[c] = "calling" /\ stage[c] = "returned"
  /\ flush' = [flush EXCEPT ![c] = "done"]
  /\ buffer' = IF answer[c] = "ok" THEN <<>> ELSE batch[c] \o buffer
  /\ UNCHANGED <<mcpVars, enabled, reloads, turns, batch, stored, evicted, discarded>>

Settle(c) ==
  /\ flush[c] = "calling" /\ stage[c] = "returned"
  /\ flush' = [flush EXCEPT ![c] = "done"]
  /\ buffer' = IF answer[c] = "ok" THEN buffer ELSE batch[c] \o buffer
  /\ UNCHANGED <<mcpVars, enabled, reloads, turns, batch, stored, evicted, discarded>>

Client == \/ McpSystem
          \/ \E c \in Callers : Receive(c) \/ Timeout(c) \/ ConnectionEnds(c) \/ Annotate(c)

Next ==
  \/ AfterTurn \/ Reconfigure
  \/ \E c \in Callers : Claim(c) \/ Drop(c) \/ LearnBatch(c) \/ Store(c) \/ Settle(c)
  \/ Client /\ UNCHANGED hookVars

Fairness == McpFairness
Spec == Init /\ [][Next]_vars /\ Fairness

-----------------------------------------------------------------------------
(* What must hold.                                                         *)

(* No episode is lost: it is in the buffer, in a batch that is being       *)
(* sent, on the server, counted as evicted, or was dropped because memory  *)
(* was disabled, whatever fails and whatever comes during a flush.          *)
NothingLost ==
  \A e \in 1..turns :
    \/ e \in Contents(buffer) \cup evicted \cup discarded
    \/ \E c \in Callers : flush[c] \in {"claimed", "calling"} /\ e \in Contents(batch[c])
    \/ stored[e] > 0

(* Overlapping flushes do not write an episode twice.  It can be stored    *)
(* again only if a flush that failed, because its answer came too late or  *)
(* not at all, had been carried out by the server.                         *)
WrittenOnce ==
  \A e \in Episodes :
    stored[e] > 1 => \E c \in Callers :
      e \in Contents(batch[c]) /\ reply[c] = "ok" /\ answer[c] # "ok" /\ stage[c] = "returned"

-----------------------------------------------------------------------------
(* Why it holds.  An episode is live in the buffer or in a batch that is   *)
(* being sent, and in one of them only.                                    *)

HookType ==
  /\ enabled \in BOOLEAN /\ reloads \in Nat /\ turns \in 0..MaxEpisodes
  /\ buffer \in Seq(Episodes) /\ batch \in [Callers -> Seq(Episodes)]
  /\ flush \in [Callers -> {"idle", "dropping", "claimed", "calling", "done"}]
  /\ stored \in [Episodes -> Nat]
  /\ evicted \subseteq Episodes /\ discarded \subseteq Episodes

TypeOK == McpType /\ HookType

(* A flush calls the server once, with the batch it has claimed, and ends  *)
(* when the call has returned.                                             *)
FlushInv ==
  \A c \in Callers : stage[c] # "idle" =>
    flush[c] = "calling" \/ (flush[c] = "done" /\ stage[c] = "returned")

Live(c)     == flush[c] \in {"claimed", "calling"}
Finished(c) == flush[c] = "done" /\ answer[c] = "ok"

(* Only episodes of turns that were made are anywhere; no two batches that *)
(* are being sent share one with each other or with the buffer; what a     *)
(* successful flush has sent is in none of them any more.                  *)
PlacesInv ==
  /\ Contents(buffer) \subseteq 1..turns
  /\ \A c \in Callers : Contents(batch[c]) \subseteq 1..turns
  /\ \A c \in Callers : Live(c) \/ Finished(c) =>
       Contents(batch[c]) \cap Contents(buffer) = {}
  /\ \A c, d \in Callers : Live(c) /\ (Live(d) \/ Finished(d)) /\ c # d =>
       Contents(batch[c]) \cap Contents(batch[d]) = {}

(* What the server has accepted it has stored, and nothing else.           *)
StoredInv ==
  /\ \A c \in Callers : reply[c] = "ok" => \A e \in Contents(batch[c]) : stored[e] > 0
  /\ \A e \in Episodes : stored[e] > 0 =>
       \E c \in Callers : reply[c] = "ok" /\ e \in Contents(batch[c])

IInv == ReaperInv /\ CallInv /\ FlushInv /\ PlacesInv /\ StoredInv
=============================================================================
