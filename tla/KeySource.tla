------------------------------ MODULE KeySource ------------------------------
(***************************************************************************)
(* What a thread that verifies a token may rely on when it asks for the    *)
(* key, without a cache, a lock or a key set on its way: the key it gets   *)
(* was published a bounded time ago, a key that was published all along is *)
(* not reported missing, and the provider is asked twice at most.          *)
(***************************************************************************)
EXTENDS Integers

CONSTANTS Kid, Caller, TTL, Latency, None

VARIABLES
    now,        \* the clock
    status,     \* what the provider does with each key
    gone,       \* when it withdrew it
    asks        \* what each thread asks for, or the outcome of its last call

kvars == <<now, status, gone, asks>>

Answered(outcome) == [stage |-> outcome, kid |-> None, steady |-> FALSE, left |-> 0]
Asking(c) == asks[c].stage = "asking"

KInit ==
    /\ now = 0
    /\ status \in [Kid -> {"future", "published"}]
    /\ gone = [k \in Kid |-> 0]
    /\ asks = [c \in Caller |-> Answered("found")]

\* Two downloads are left to a call that begins.
Ask(c, k) ==
    /\ ~Asking(c)
    /\ asks' = [asks EXCEPT ![c] = [stage |-> "asking", kid |-> k, left |-> 2,
                                    steady |-> status[k] = "published"]]
    /\ UNCHANGED <<now, status, gone>>

AskProvider(c) ==
    /\ Asking(c)
    /\ asks[c].left > 0
    /\ asks' = [asks EXCEPT ![c].left = @ - 1]
    /\ UNCHANGED <<now, status, gone>>

\* The thread goes on to check the signature with the key.
Give(c) ==
    LET k == asks[c].kid
    IN  /\ Asking(c)
        /\ status[k] # "future"
        /\ status[k] = "withdrawn" => now <= gone[k] + TTL + Latency
        /\ asks' = [asks EXCEPT ![c] = Answered("found")]
        /\ UNCHANGED <<now, status, gone>>

\* The token is refused: only after two downloads, and not for a good key.
Deny(c) ==
    /\ Asking(c)
    /\ asks[c].left = 0
    /\ ~asks[c].steady
    /\ asks' = [asks EXCEPT ![c] = Answered("missing")]
    /\ UNCHANGED <<now, status, gone>>

Fail(c) ==
    /\ Asking(c)
    /\ asks' = [asks EXCEPT ![c] = Answered("failed")]
    /\ UNCHANGED <<now, status, gone>>

Publish(k) ==
    /\ status[k] = "future"
    /\ status' = [status EXCEPT ![k] = "published"]
    /\ UNCHANGED <<now, gone, asks>>

Withdraw(k) ==
    /\ status[k] = "published"
    /\ status' = [status EXCEPT ![k] = "withdrawn"]
    /\ gone' = [gone EXCEPT ![k] = now]
    /\ asks' = [c \in Caller |-> IF asks[c].kid = k
                                 THEN [asks[c] EXCEPT !.steady = FALSE] ELSE asks[c]]
    /\ UNCHANGED now

Tick == now' = now + 1 /\ UNCHANGED <<status, gone, asks>>

KNext ==
    \/ \E c \in Caller, k \in Kid : Ask(c, k)
    \/ \E c \in Caller : AskProvider(c) \/ Give(c) \/ Deny(c) \/ Fail(c)
    \/ \E k \in Kid : Publish(k) \/ Withdraw(k)
    \/ Tick

KSpec == KInit /\ [][KNext]_kvars
=============================================================================
