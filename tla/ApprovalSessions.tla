-------------------------- MODULE ApprovalSessions --------------------------
(***************************************************************************)
(* The registry of approval sessions in the memory of the API process      *)
(* (apps/api/main.py, _create_retrieval_release_session and                *)
(* _consume_retrieval_release_session): a token authorises one decision or *)
(* one rollback, expires, and is forgotten when the registry is full.      *)
(*                                                                         *)
(* Requests are admitted for a single owner only, so the actor of a        *)
(* session is always that of the request and is left out.                  *)
(***************************************************************************)
EXTENDS Naturals, FiniteSets

CONSTANTS
    Tokens,        \* tokens that secrets.token_urlsafe can return, all fresh
    Proposals,     \* formal proposals, one for each analysis that passed
    SessionLimit,  \* _RETRIEVAL_RELEASE_SESSION_LIMIT
    SessionTTL,    \* _RETRIEVAL_RELEASE_SESSION_TTL_SECONDS
    MaxClock,      \* bound of the model: the last instant
    None           \* no proposal, no release, no handler

ASSUME SessionAssumption ==
    SessionLimit \in Nat \ {0} /\ SessionTTL \in Nat \ {0} /\ MaxClock \in Nat

VARIABLES
    clock,     \* time.monotonic()
    sessions,  \* _RETRIEVAL_RELEASE_SESSIONS: what it holds, by token
    issued,    \* history: the tokens that were ever entered
    spent,     \* history: the tokens that were popped from the registry
    accepted   \* history: how many requests each token let through

sessionVars == <<clock, sessions, issued, spent, accepted>>

Requests == {"decision", "rollback"}
Session  == [action : Requests, proposal : Proposals, expires : Nat]

SessionsTypeOK ==
    /\ clock \in 0..MaxClock
    /\ DOMAIN sessions \subseteq issued
    /\ \A t \in DOMAIN sessions : sessions[t] \in Session
    /\ issued \subseteq Tokens
    /\ spent \subseteq issued \ DOMAIN sessions
    /\ accepted \in [Tokens -> Nat]

SessionsInit ==
    /\ clock = 0
    /\ sessions = [t \in {} |-> None]
    /\ issued = {}
    /\ spent = {}
    /\ accepted = [t \in Tokens |-> 0]

Tick ==
    /\ clock < MaxClock
    /\ clock' = clock + 1
    /\ UNCHANGED <<sessions, issued, spent, accepted>>

Live(session) == session.expires > clock

KeptBelowLimit ==
    LET live == {t \in DOMAIN sessions : Live(sessions[t])}
    IN  IF Cardinality(live) < SessionLimit - 1
        THEN {live}
        ELSE {live \ {oldest} : oldest \in live}

(* The tokens that stay when room is made for one more: expired sessions    *)
(* go first, then the one that would have expired first.                    *)
Kept ==
    LET live == {t \in DOMAIN sessions : Live(sessions[t])}
    IN  IF Cardinality(live) < SessionLimit
        THEN {live}
        ELSE {live \ {oldest} : oldest \in
                {t \in live : \A u \in live :
                    sessions[t].expires <= sessions[u].expires}}

(* A session is entered under the lock of the registry.  Its expiry was     *)
(* computed before, at instant `since'.                                     *)
Enter(action, proposal, since) ==
    \E t \in Tokens \ issued, kept \in Kept :
        /\ sessions' = [u \in kept \cup {t} |->
             IF u = t THEN [action |-> action, proposal |-> proposal,
                            expires |-> since + SessionTTL]
             ELSE sessions[u]]
        /\ issued' = issued \cup {t}
        /\ UNCHANGED <<clock, spent, accepted>>

PopLater(t) ==
    /\ spent' = spent \cup {t}
    /\ UNCHANGED <<clock, sessions, issued, accepted>>

(* The token of a request leaves the registry before it is looked at.       *)
Pop(t) ==
    /\ sessions' = [u \in DOMAIN sessions \ {t} |-> sessions[u]]
    /\ spent' = spent \cup {t}
    /\ UNCHANGED <<clock, issued, accepted>>

(* A popped session authorises the request when it has not expired and was  *)
(* created for this action and, in a decision, for this proposal.           *)
Valid(session, action, proposal) ==
    /\ Live(session)
    /\ session.action = action
    /\ action = "decision" => session.proposal = proposal

Accept(t) ==
    /\ accepted' = [accepted EXCEPT ![t] = @ + 1]
    /\ UNCHANGED <<clock, sessions, issued, spent>>
-----------------------------------------------------------------------------
(* A token lets at most one request through, however many requests carry it *)
(* at the same time (single-use Owner token).  And a session that was       *)
(* neither used nor expired is forgotten only when at least SessionLimit    *)
(* others were created, also when late threads enter sessions in another    *)
(* order than that of their expiry.                                         *)
SessionsAreHonoured ==
    [][/\ \A t \in Tokens : accepted'[t] <= 1
       /\ \A t \in DOMAIN sessions \ DOMAIN sessions' :
            \/ t \in spent'
            \/ ~ Live(sessions[t])
            \/ Cardinality(issued' \ {t}) >= SessionLimit]_sessionVars
=============================================================================
