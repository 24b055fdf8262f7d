------------------------------- MODULE Startup ------------------------------
(***************************************************************************)
(* Waiting for a network to start.  The nodes have been started; Kurtosis  *)
(* takes their availability checkers one after the other, in any order,    *)
(* and polls each: while GetTimeout has not passed it calls IsServiceUp,   *)
(* pausing after a "no".  IsServiceUp asks the node for one chain after    *)
(* the other, and sleeps before it says "yes".                             *)
(*                                                                         *)
(* Time is in ticks, and only counts while somebody waits.  A node has its *)
(* chains bootstrapped some time after all its bootstrappers have theirs,  *)
(* so how long a wait takes depends on which node it is for.               *)
(***************************************************************************)
EXTENDS Naturals, Sequences, FiniteSets

CONSTANTS
    Node,         \* the services of the network
    Deps,         \* the bootstrappers of each
    Given,        \* the timeout the checkers are made with
    Fixed,        \* the 90 seconds of GetTimeout
    Request,      \* the deadline of a request, DefaultRequestTimeout
    SettleTime,   \* what IsServiceUp sleeps before it returns true
    Pause,        \* Kurtosis' pause between two polls
    BootTime      \* a prompt node is bootstrapped this long after its bootstrappers

Chain == {"P", "C", "X"}
Query == <<"P", "C", "X">>

\* A node's bootstrappers are nodes started before it: of any nodes one has none among
\* them.  In the slowest order the last node of a chain of bootstrappers is waited for
\* first.  Once it is up, a "no" may be on its way and a pause follow; then there
\* must be time for one more poll to begin.
ASSUME StartupAssumption ==
    /\ IsFiniteSet(Node)
    /\ Deps \in [Node -> SUBSET Node]
    /\ \A S \in SUBSET Node : S # {} => \E n \in S : Deps[n] \cap S = {}
    /\ {Given, Fixed, Request, SettleTime, Pause, BootTime} \subseteq Nat \ {0}
    /\ Cardinality(Node) * BootTime + Request + Pause < Fixed

VARIABLES
    prompt,    \* nodes bootstrap within BootTime, and no request fails
    up,        \* the chains each node has bootstrapped
    ready,     \* how long each node's bootstrappers have been up
    current,   \* the node waited for
    pc,        \* "pick" a node, "poll", "ask" it, its "reply", "settle", "pause", "end"
    query,     \* which chain is asked for
    said,      \* what the node has replied
    answered,  \* how long ago each chain was last said to be bootstrapped
    waited,    \* how long the current node has been waited for
    spent,     \* how long the request, sleep or pause has taken
    outcome    \* what each wait came to: "none", "up" or "timeout"

nodes == <<up, ready>>
checker == <<current, pc, query, said, answered, waited, spent, outcome>>
vars == <<prompt, nodes, checker>>

IsUp(n) == up[n] = Chain
Ready(n) == \A d \in Deps[n] : IsUp(d)

\* The longest a round may take: three requests, then a sleep or a pause.
Round == Len(Query) * Request + (IF SettleTime > Pause THEN SettleTime ELSE Pause)

Init == /\ prompt \in BOOLEAN
        /\ up = [n \in Node |-> {}] /\ ready = [n \in Node |-> 0]
        /\ current \in Node /\ pc = "pick" /\ query = 1 /\ said = FALSE
        /\ answered = [c \in Chain |-> Round + 1]
        /\ waited = 0 /\ spent = 0
        /\ outcome = [n \in Node |-> "none"]

-----------------------------------------------------------------------------
(* The nodes.                                                              *)

Bootstrap(n, c) == /\ pc # "end" /\ Ready(n) /\ c \notin up[n]
                   /\ up' = [up EXCEPT ![n] = @ \cup {c}]
                   /\ UNCHANGED <<prompt, ready, checker>>

-----------------------------------------------------------------------------
(* The checkers.                                                           *)

\* Mutant: the timeout the checker was made with.
GivenTimeout == Given

GetTimeout == Fixed

\* WaitForStartup of the next node, in any order.
WaitForStartup(n) == /\ pc = "pick" /\ outcome[n] = "none"
                     /\ current' = n /\ pc' = "poll" /\ query' = 1
                     /\ waited' = 0 /\ spent' = 0
                     /\ UNCHANGED <<said, answered, outcome>>

\* Mutant: the method has a pointer receiver and the flags are kept.
ResumePoll == /\ pc = "poll" /\ waited < GetTimeout
              /\ pc' = "ask" /\ spent' = 0
              /\ UNCHANGED <<current, query, said, answered, waited, outcome>>

\* The flags of the call before were set in a copy: all three chains are asked for.
IsServiceUp == /\ pc = "poll" /\ waited < GetTimeout
               /\ pc' = "ask" /\ query' = 1 /\ spent' = 0
               /\ UNCHANGED <<current, said, answered, waited, outcome>>

TimesOut == /\ pc = "poll" /\ waited >= GetTimeout
            /\ outcome' = [outcome EXCEPT ![current] = "timeout"]
            /\ pc' = "end"
            /\ UNCHANGED <<current, query, said, answered, waited, spent>>

\* The node looks at the chain.
Answer == /\ pc = "ask"
          /\ said' = (Query[query] \in up[current])
          /\ answered' = IF said' THEN [answered EXCEPT ![Query[query]] = 0] ELSE answered
          /\ pc' = "reply"
          /\ UNCHANGED <<current, query, waited, spent, outcome>>

\* Mutant: no end to the queries.
AskOneMore == /\ pc = "reply" /\ said
              /\ pc' = "ask" /\ query' = query + 1 /\ spent' = 0
              /\ UNCHANGED <<current, said, answered, waited, outcome>>

Bootstrapped == /\ pc = "reply" /\ said
                /\ spent' = 0
                /\ IF query = Len(Query) THEN pc' = "settle" /\ UNCHANGED query
                                         ELSE pc' = "ask" /\ query' = query + 1
                /\ UNCHANGED <<current, said, answered, waited, outcome>>

\* The reply is no, or there is none within the deadline.
No == \/ pc = "reply" /\ ~said
      \/ pc \in {"ask", "reply"} /\ ~prompt

\* Mutant: IsServiceUp asks again until the chain is bootstrapped.
AskAgain == /\ No
            /\ pc' = "ask" /\ spent' = 0
            /\ UNCHANGED <<current, query, said, answered, waited, outcome>>

\* IsServiceUp returns false.
NotBootstrapped == /\ No
                   /\ pc' = "pause" /\ spent' = 0
                   /\ UNCHANGED <<current, query, said, answered, waited, outcome>>

\* The sleep is over and IsServiceUp returns true; the next node's turn, if any.
ServiceUp == /\ pc = "settle" /\ spent = SettleTime
             /\ outcome' = [outcome EXCEPT ![current] = "up"]
             /\ pc' = IF \E n \in Node \ {current} : outcome[n] = "none" THEN "pick" ELSE "end"
             /\ UNCHANGED <<current, query, said, answered, waited, spent>>

PollAgain == /\ pc = "pause" /\ spent = Pause
             /\ pc' = "poll"
             /\ UNCHANGED <<current, query, said, answered, waited, spent, outcome>>

Checker == \/ \E n \in Node : WaitForStartup(n)
           \/ IsServiceUp \/ TimesOut \/ Answer \/ Bootstrapped \/ NotBootstrapped
           \/ ServiceUp \/ PollAgain

Limit == CASE pc \in {"ask", "reply"} -> Request
           [] pc = "settle"           -> SettleTime
           [] pc = "pause"            -> Pause

Tick == /\ pc \in {"ask", "reply", "settle", "pause"} /\ spent < Limit
        /\ prompt => \A n \in Node : Ready(n) /\ ~IsUp(n) => ready[n] < BootTime
        /\ spent' = spent + 1 /\ waited' = waited + 1
        /\ ready' = [n \in Node |-> IF Ready(n) /\ ~IsUp(n) /\ ready[n] < BootTime
                                    THEN ready[n] + 1 ELSE ready[n]]
        /\ answered' = [c \in Chain |-> IF answered[c] > Round THEN answered[c]
                                                               ELSE answered[c] + 1]
        /\ UNCHANGED <<prompt, up, current, pc, query, said, outcome>>

Ended == pc = "end" /\ UNCHANGED vars

Next == \/ Checker /\ UNCHANGED <<prompt, nodes>>
        \/ \E n \in Node, c \in Chain : Bootstrap(n, c)
        \/ Tick \/ Ended

Spec == Init /\ [][Next]_vars

-----------------------------------------------------------------------------

\* The variables have their types; a poll asks for three chains.
TypeOK ==
    /\ prompt \in BOOLEAN
    /\ up \in [Node -> SUBSET Chain] /\ ready \in [Node -> 0..BootTime]
    /\ current \in Node /\ query \in 1..Len(Query)
    /\ pc \in {"pick", "poll", "ask", "reply", "settle", "pause", "end"}
    /\ answered \in [Chain -> 0..(Round + 1)]
    /\ said \in BOOLEAN /\ waited \in Nat /\ spent \in Nat
    /\ outcome \in [Node -> {"none", "up", "timeout"}]

\* A node is called up on the answers of one poll: each chain has been said to be
\* bootstrapped since the poll began, the first no longer ago than the three
\* requests and the sleep take.  No answer of a poll that came to "no" counts.
UpIsFresh ==
    pc = "settle" => \A j \in 1..Len(Query) :
                        answered[Query[j]] <= (Len(Query) + 1 - j) * Request + spent

\* The nodes of a prompt network all start, whichever is waited for first: the fixed
\* timeout has room for the bootstrapping of all nodes, one after the other.
PromptStartsUp == prompt => \A n \in Node : outcome[n] # "timeout"

\* A wait lasts at most one round longer than its timeout, whatever the node answers.
ReturnsInTime == waited <= GetTimeout + Round
=============================================================================
