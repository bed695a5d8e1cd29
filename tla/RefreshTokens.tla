---------------------------- MODULE RefreshTokens ----------------------------
(***************************************************************************)
(* What the table refresh_tokens promises to those who hold its tokens,    *)
(* however many requests are in flight: a token is issued once, for good   *)
(* to one holder, and goes out of use once.  While it is in use it may be  *)
(* claimed for a new pair, by several clients at once, and each of them    *)
(* may be given one; but no pair is handed over before the token that was  *)
(* claimed for it is out of use.  Only pairs that were handed over can be  *)
(* claimed in their turn, so of a chain of pairs at most the last is alive *)
(* among those that clients have.  Sessions implements Spec.               *)
(***************************************************************************)

CONSTANTS
  Tokens,    \* the tokens there may ever be
  Holders,   \* whom a token is for: a user in a tenant
  None       \* "no token" or "nobody"

VARIABLES
  state,     \* state[t]: not there, in use or out of use
  holder,    \* holder[t]: whom t was issued to
  claim,     \* claim[t]: the token that was presented for t
  handed     \* handed[t]: a client has t

vars == <<state, holder, claim, handed>>

Init ==
  /\ state = [t \in Tokens |-> "none"]
  /\ holder = [t \in Tokens |-> None]
  /\ claim = [t \in Tokens |-> None]
  /\ handed = [t \in Tokens |-> FALSE]

\* A client presents s, and is to get t for it.
Claim(t, s) ==
  /\ state[t] = "none" /\ claim[t] = None
  /\ state[s] = "active" /\ handed[s]
  /\ claim' = [claim EXCEPT ![t] = s]
  /\ UNCHANGED <<state, holder, handed>>

\* The claim comes to nothing: it is refused or its request fails.
Withdraw(t) ==
  /\ state[t] = "none" /\ claim[t] # None
  /\ claim' = [claim EXCEPT ![t] = None]
  /\ UNCHANGED <<state, holder, handed>>

\* A token that answers a claim is for the holder of the token claimed.
Issue(t, h) ==
  /\ state[t] = "none"
  /\ claim[t] # None => h = holder[claim[t]]
  /\ state' = [state EXCEPT ![t] = "active"]
  /\ holder' = [holder EXCEPT ![t] = h]
  /\ UNCHANGED <<claim, handed>>

\* Tokens go out of use: one is revoked, or some expire together.
Retire(S) ==
  /\ state' = [t \in Tokens |-> IF t \in S THEN "retired" ELSE state[t]]
  /\ UNCHANGED <<holder, claim, handed>>

\* t reaches its client.
HandOver(t) ==
  /\ state[t] # "none" /\ ~handed[t]
  /\ claim[t] # None => state[claim[t]] = "retired"
  /\ handed' = [handed EXCEPT ![t] = TRUE]
  /\ UNCHANGED <<state, holder, claim>>

Next ==
  \/ \E t \in Tokens : \/ \E s \in Tokens : Claim(t, s)
                       \/ Withdraw(t)
                       \/ \E h \in Holders : Issue(t, h)
                       \/ HandOver(t)
  \/ \E S \in SUBSET {t \in Tokens : state[t] = "active"} : Retire(S)

Spec == Init /\ [][Next]_vars
=============================================================================
