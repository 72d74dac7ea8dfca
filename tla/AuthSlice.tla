------------------------------- MODULE AuthSlice -------------------------------
(***************************************************************************)
(* store/slices/authSlice.ts: the thunks loginUser, registerUser,          *)
(* refreshToken and logoutUser, under way at the same time, the two plain  *)
(* reducers, and the copy of the token in localStorage.  A thunk writes    *)
(* localStorage and dispatches its end with no other task in between.      *)
(***************************************************************************)
EXTENDS FiniteSets

CONSTANTS Calls, Tokens, NoToken

SliceAssumption == NoToken \notin Tokens

VARIABLES
  stored,  \* localStorage "token"
  token, user, isAuthenticated, isLoading, error,   \* the slice; the user is the token's
  call     \* the thunk each call runs

vars == <<stored, token, user, isAuthenticated, isLoading, error, call>>

Forms == {"loginUser", "registerUser"}
Thunks == Forms \cup {"refreshToken", "logoutUser"}

TypeOK ==
  /\ {stored, token, user} \subseteq Tokens \cup {NoToken}
  /\ {isAuthenticated, isLoading, error} \subseteq BOOLEAN
  /\ call \in [Calls -> Thunks \cup {"none"}]

\* A page is loaded: the token of an earlier visit, and nobody signed in.
Init ==
  /\ stored \in Tokens \cup {NoToken} /\ token = stored /\ user = NoToken
  /\ isAuthenticated = FALSE /\ isLoading = FALSE /\ error = FALSE
  /\ call = [c \in Calls |-> "none"]

Cleared ==
  /\ user' = NoToken /\ token' = NoToken /\ isAuthenticated' = FALSE
  /\ stored' = NoToken

Set(t) == user' = t /\ token' = t /\ isAuthenticated' = TRUE /\ stored' = t

Start(c, thunk) ==
  /\ call[c] = "none"
  /\ call' = [call EXCEPT ![c] = thunk]
  /\ isLoading' = (isLoading \/ thunk \in Forms)
  /\ error' = (error /\ thunk \notin Forms)
  /\ UNCHANGED <<stored, token, user, isAuthenticated>>

End(c) == call' = [call EXCEPT ![c] = "none"]

FormFulfilled(c) ==
  /\ call[c] \in Forms
  /\ \E t \in Tokens : Set(t)
  /\ isLoading' = FALSE /\ error' = FALSE
  /\ End(c)

\* The user and the token of an earlier sign-in stay.
FormRejected(c) ==
  /\ call[c] \in Forms
  /\ isAuthenticated' = FALSE /\ isLoading' = FALSE /\ error' = TRUE
  /\ End(c)
  /\ UNCHANGED <<stored, token, user>>

RefreshEnded(c) ==
  /\ call[c] = "refreshToken"
  /\ Cleared \/ \E t \in Tokens : Set(t)
  /\ End(c)
  /\ UNCHANGED <<isLoading, error>>

\* Whether or not the server was reached.
LogoutEnded(c) ==
  /\ call[c] = "logoutUser"
  /\ Cleared
  /\ error' = FALSE
  /\ End(c)
  /\ UNCHANGED isLoading

SetCredentials(t) == Set(t) /\ UNCHANGED <<isLoading, error, call>>

ClearCredentials == Cleared /\ UNCHANGED <<isLoading, error, call>>

ClearError == error' = FALSE /\ UNCHANGED <<stored, token, user, isAuthenticated, isLoading, call>>

Next ==
  \/ \E c \in Calls :
       \/ \E thunk \in Thunks : Start(c, thunk)
       \/ FormFulfilled(c) \/ FormRejected(c) \/ RefreshEnded(c) \/ LogoutEnded(c)
  \/ \E t \in Tokens : SetCredentials(t)
  \/ ClearCredentials \/ ClearError

Spec == Init /\ [][Next]_vars

-----------------------------------------------------------------------------
\* The spinner of a form never outlives the last form under way.
LoadingIsUnderWay == isLoading => \E c \in Calls : call[c] \in Forms
=============================================================================
