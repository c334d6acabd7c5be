------------------------------- MODULE Pacing -------------------------------
(***************************************************************************)
(* The limiter every request of a client goes through                      *)
(* (internal/moodle/pace.go), and the pause a busy site asks for           *)
(* (Client.noteBackoff).                                                   *)
(*                                                                         *)
(* Time is counted in the clock's smallest unit, and kept as what is left  *)
(* or has passed: `last` as the time since then, `until` as the time until *)
(* then.  The allowance is a fraction of a request in the code and is      *)
(* counted here in units of time too, so that MinInterval of them make one *)
(* request.  The code computes it in floating point, and turns what is     *)
(* missing back into whole units: either may come out one unit short.      *)
(***************************************************************************)
EXTENDS Integers

CONSTANTS
    MinInterval,   \* the gap between two requests; without one nothing is paced
    Burst,         \* how many may go out without it
    MaxRetryAfter, \* the longest pause a site is given
    Quiet,         \* the pause of a site that names none
    Horizon        \* how far back the history goes

ASSUME PacingAssumption ==
    /\ MinInterval \in Nat \ {0}
    /\ Burst \in Nat \ {0}
    /\ MaxRetryAfter \in Nat
    /\ Quiet \in 0..MaxRetryAfter
    /\ Horizon \in Nat

VARIABLES
    allowance, \* what may go out at once, as of the last refill
    ago,       \* the time since then, or enough to fill the allowance
    pause,     \* how long the site's pause still lasts
    spent,     \* history: spent[a], the requests charged in the last a units
    quiet      \* history: how long each pause asked for still lasts

limiter == <<allowance, ago, pause, spent, quiet>>

Cap == Burst * MinInterval
AtMost(bound, n) == IF n > bound THEN bound ELSE n

\* A refill that is not capped at the burst, and one of whole requests only.
Uncapped == allowance + ago
WholeOnly == AtMost(Cap, allowance + (ago \div MinInterval) * MinInterval)

\* The allowance after a refill.
Available == AtMost(Cap, allowance + ago)

LimiterInit ==
    /\ allowance = Cap
    /\ ago = 0
    /\ pause = 0
    /\ spent = [a \in 0..Horizon |-> 0]
    /\ quiet = {}

\* A refill that is credited again the next time.
RefillTwice(left) == allowance' = left /\ UNCHANGED ago

Refill(left) == allowance' = left /\ ago' = 0

\* A slot is taken.
Charge ==
    /\ pause = 0
    /\ Available >= MinInterval
    /\ Refill(Available - MinInterval)
    /\ spent' = [a \in 0..Horizon |-> spent[a] + 1]
    /\ UNCHANGED <<pause, quiet>>

\* ... or is given away: rounding finds less than a request in the allowance, and
\* a wait of less than one unit for the rest of it.
Give ==
    /\ pause = 0
    /\ Available \in {MinInterval - 1, MinInterval}
    /\ Refill(Available)
    /\ UNCHANGED <<pause, spent, quiet>>

Reserve == Charge \/ Give

\* What the next request needed at the last refill.
MissingThen == MinInterval - allowance

\* What it still needs.
Missing == MinInterval - Available

\* The caller is told to wait for the rest of the pause, or of the next request.
Delay(d) ==
    /\ d > 0
    /\ IF pause > 0
       THEN d = pause /\ UNCHANGED <<allowance, ago>>
       ELSE /\ Available < MinInterval
            /\ Missing \in {d, d + 1}
            /\ Refill(Available)
    /\ UNCHANGED <<pause, spent, quiet>>

\* The last pause wins.
Latest(d) == d

\* The longer pause wins.
Longest(d) == IF d > pause THEN d ELSE pause

\* A site answered 429 or 503, and named d or nothing.
NoteBackoff(d) ==
    LET asked == AtMost(MaxRetryAfter, d) IN
    /\ pause' = Longest(asked)
    /\ quiet' = (quiet \cup {asked}) \ {0}
    /\ UNCHANGED <<allowance, ago, spent>>

Down(n) == IF n > 0 THEN n - 1 ELSE 0

Elapse ==
    /\ ago' = AtMost(Cap, ago + 1)
    /\ pause' = Down(pause)
    /\ spent' = [a \in 0..Horizon |-> IF a = 0 THEN 0 ELSE spent[a - 1]]
    /\ quiet' = {Down(q) : q \in quiet} \ {0}
    /\ UNCHANGED allowance

-----------------------------------------------------------------------------

LimiterTypeOK ==
    /\ allowance \in 0..Cap
    /\ ago \in 0..Cap
    /\ pause \in 0..MaxRetryAfter
    /\ spent \in [0..Horizon -> Nat]
    /\ quiet \subseteq 1..MaxRetryAfter

\* Pacing, however many callers there are and whenever they come: in any stretch
\* of time at most a burst of requests is charged, and one per interval of it.
\* (A slot that rounding gives away is charged to nobody.)
NeverTooFast ==
    \A a \in 0..Horizon : spent[a] * MinInterval <= Cap + a

=============================================================================
