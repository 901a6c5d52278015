---------------------------- MODULE Idempotency ----------------------------
(***************************************************************************)
(* withIdempotency: the wrapper around every public operation that must    *)
(* not be done twice when a client repeats it.  One logical key (tenant,   *)
(* operation, key) and the calls that use it, whether retries of one       *)
(* request, double taps, or another request that reuses the key.           *)
(*                                                                         *)
(* A call first claims the key in a transaction of its own, then works,    *)
(* then stores its response on the row it claimed.  The process may die    *)
(* between any two of these, the work may throw, and it may outlive the    *)
(* twenty-four hours for which the key is honoured.                        *)
(***************************************************************************)
EXTENDS FiniteSets

CONSTANTS
    Calls,    \* calls that may be in flight at once
    Bodies,   \* request bodies, as their hashes tell them apart
    Claims,   \* ids of the rows a claim writes; each is used once
    Null

ASSUME IdempotencyAssumption ==
    /\ Null \notin Claims \cup Bodies
    /\ Claims \cap {"reused", "in progress", "failed"} = {}  \* Refusals, below

VARIABLES
    entry,    \* the row of the key, if there is one
    call,     \* what each call is doing
    lease,    \* history: each claim is unused, honoured or over
    sender,   \* history: the body of the call that made the claim
    done      \* history: the claims whose work is committed

keyVars == <<entry, call, lease, sender, done>>

NoEntry == [id |-> Null, body |-> Null, response |-> Null, expired |-> FALSE]

\* response is the claim whose work it describes.
EntryRow == [id : Claims \cup {Null}, body : Bodies \cup {Null},
        response : Claims \cup {Null}, expired : BOOLEAN]

\* answer: the value a call returned, or how it was refused.
Refusals == {"reused", "in progress", "failed"}
NoCall == [at |-> "idle", body |-> Null, id |-> Null, answer |-> Null]
Call == [at : {"idle", "ask", "work", "store", "answered"}, body : Bodies \cup {Null},
         id : Claims \cup {Null}, answer : Claims \cup Refusals \cup {Null}]

KeyInit ==
    /\ entry = NoEntry
    /\ call = [c \in Calls |-> NoCall]
    /\ lease = [i \in Claims |-> "unused"]
    /\ sender = [i \in Claims |-> Null]
    /\ done = {}

Answered(c, what) == call' = [call EXCEPT ![c] = [@ EXCEPT !.at = "answered", !.answer = what]]

\* A client sends the request, again or for the first time.
Ask(c, body) ==
    /\ call[c].at \in {"idle", "answered"}
    /\ call' = [call EXCEPT ![c] = [NoCall EXCEPT !.at = "ask", !.body = body]]
    /\ UNCHANGED <<entry, lease, sender, done>>

HonouredOnceAnswered == entry # NoEntry /\ ~entry.expired /\ entry.response # Null  \* a slip
\* A row counts until it expires.
Honoured == entry # NoEntry /\ ~entry.expired

\* The transaction under the key's advisory lock: an expired row is deleted and
\* a new one is written.
Claim(c) ==
    /\ call[c].at = "ask"
    /\ ~Honoured
    /\ \E i \in {j \in Claims : lease[j] = "unused"} :
          /\ entry' = [id |-> i, body |-> call[c].body, response |-> Null, expired |-> FALSE]
          /\ call' = [call EXCEPT ![c] = [@ EXCEPT !.at = "work", !.id = i]]
          /\ lease' = [lease EXCEPT ![i] = "honoured"]
          /\ sender' = [sender EXCEPT ![i] = call[c].body]
    /\ UNCHANGED done

\* replay: the same body gets the stored response, once there is one.
ReplayOfAny(body) == IF entry.response = Null THEN "in progress" ELSE entry.response  \* a slip
ReplayOf(body) ==
    IF entry.body # body THEN "reused"
    ELSE IF entry.response = Null THEN "in progress" ELSE entry.response

Replay(c) ==
    /\ call[c].at = "ask"
    /\ Honoured
    /\ Answered(c, ReplayOf(call[c].body))
    /\ UNCHANGED <<entry, lease, sender, done>>

\* The operation commits what it does, in transactions of its own.
Work(c) ==
    /\ call[c].at = "work"
    /\ done' = done \cup {call[c].id}
    /\ call' = [call EXCEPT ![c].at = "store"]
    /\ UNCHANGED <<entry, lease, sender>>

\* It throws: the claim stays, without a response.
Throw(c) ==
    /\ call[c].at = "work"
    /\ Answered(c, "failed")
    /\ UNCHANGED <<entry, lease, sender, done>>

\* The update names the claim's own row; when that row is gone the update
\* fails, and the call with it although its work is done.
Mine(c) == entry.id = call[c].id

Store(c) ==
    /\ call[c].at = "store"
    /\ IF Mine(c)
       THEN /\ entry' = [entry EXCEPT !.response = call[c].id]
            /\ Answered(c, call[c].id)
       ELSE /\ Answered(c, "failed")
            /\ UNCHANGED entry
    /\ UNCHANGED <<lease, sender, done>>

Die(c) ==
    /\ call[c].at \in {"ask", "work", "store"}
    /\ call' = [call EXCEPT ![c] = NoCall]
    /\ UNCHANGED <<entry, lease, sender, done>>

Expire ==
    /\ Honoured
    /\ entry' = [entry EXCEPT !.expired = TRUE]
    /\ lease' = [lease EXCEPT ![entry.id] = "over"]
    /\ UNCHANGED <<call, sender, done>>

\* The retention cleanup deletes expired keys, answered or not.
Cleanup ==
    /\ entry.expired
    /\ entry' = NoEntry
    /\ UNCHANGED <<call, lease, sender, done>>

KeyNext ==
    \/ \E c \in Calls :
          \/ \E body \in Bodies : Ask(c, body)
          \/ Claim(c) \/ Replay(c) \/ Work(c) \/ Throw(c) \/ Store(c) \/ Die(c)
    \/ Expire
    \/ Cleanup

KeySpec == KeyInit /\ [][KeyNext]_keyVars

----------------------------------------------------------------------------
(* Properties.                                                             *)

\* Rows, calls and history are well formed.
KeyTypeOK ==
    /\ entry \in EntryRow
    /\ call \in [Calls -> Call]
    /\ lease \in [Claims -> {"unused", "honoured", "over"}]
    /\ sender \in [Claims -> Bodies \cup {Null}]
    /\ done \subseteq Claims

\* At most once: two claims are never honoured at the same time, and a claim is
\* worked on by one call, so whatever dies, throws or is retried, a key does its
\* work at most once in its twenty-four hours.
Working(c) == call[c].at \in {"work", "store"}
OneRunPerLease ==
    /\ \A i, j \in Claims : lease[i] = "honoured" /\ lease[j] = "honoured" => i = j
    /\ \A c, d \in Calls : Working(c) /\ Working(d) /\ call[c].id = call[d].id => c = d

\* A call that is answered with a value is answered with committed work done
\* for the very request it sent.
ReplaysItsOwn ==
    \A c \in Calls : call[c].answer \in Claims =>
        call[c].answer \in done /\ sender[call[c].answer] = call[c].body

\* A process that returns after its lease is over never answers for the claim
\* that has taken the key since.
StaleNeverOverwrites == entry.response \in {Null, entry.id}
=============================================================================
