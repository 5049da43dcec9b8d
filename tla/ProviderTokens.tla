--------------------------- MODULE ProviderTokens ---------------------------
(***************************************************************************)
(* The provider's tokens of linked accounts: accessToken and refreshTokens *)
(* of oauth/Flow.ts, against the sign-ins and links that replace them      *)
(* (domain/Accounts.ts) and the unlinks that remove them.                  *)
(*                                                                         *)
(* Of a row's tokens only the refresh token matters here.  The provider is *)
(* external: a refresh token works until it is spent and rotated, and each *)
(* consent starts one that is independent of earlier ones.                 *)
(***************************************************************************)
EXTENDS FiniteSets

CONSTANTS
    ProviderIdentity,
    Refreshable, \* those of providers that permit refreshing
    User,
    Token,      \* refresh tokens
    Caller,
    Initial,    \* the id of an account that was there at first
    Nothing

ASSUME IdentitiesAreKnown == Refreshable \subseteq ProviderIdentity
ASSUME NamesAreDistinct ==
    Initial \notin Caller /\ Nothing \notin Token \cup ProviderIdentity \cup User

VARIABLES
    rows,       \* the accounts table
    live,       \* refresh tokens the provider would redeem
    ofWhom,     \* history: whom a refresh token was issued for
    call,
    lost        \* history: the accounts that a rotated token did not reach

tokenVars == <<rows, live, ofWhom, call, lost>>

Id == Caller \cup {Initial}
Account == [id : Id, is : ProviderIdentity, owner : User, refresh : Token \cup {Nothing}]
CallState ==
    [kind : {"signIn", "accessToken", "refreshTokens", Nothing},
     at : {"idle", "link", "update", "post", "save", "done"},
     is : ProviderIdentity \cup {Nothing}, user : User \cup {Nothing},
     account : Account \cup {Nothing}, gained : Token \cup {Nothing}]

NoCall ==
    [kind |-> Nothing, at |-> "idle", is |-> Nothing, user |-> Nothing,
     account |-> Nothing, gained |-> Nothing]

TokensInit ==
    /\ rows \in {{}} \cup {{[id |-> Initial, is |-> i, owner |-> u, refresh |-> t]} :
                            i \in ProviderIdentity, u \in User, t \in Token}
    /\ live = {a.refresh : a \in rows}
    /\ \E i \in ProviderIdentity : ofWhom = [t \in Token |-> IF t \in live THEN i ELSE Nothing]
    /\ \A a \in rows : ofWhom[a.refresh] = a.is
    /\ call = [r \in Caller |-> NoCall]
    /\ lost = {}

-----------------------------------------------------------------------------

CallAt(r, step) == call[r].at = step

CallBecomes(r, state) == call' = [call EXCEPT ![r] = state]

Ends(r) == CallBecomes(r, [NoCall EXCEPT !.kind = call[r].kind, !.at = "done"])

\* The provider answers with a refresh token of an identity, or with none.
Given(t, i) ==
    \/ t = Nothing /\ UNCHANGED ofWhom
    \/ t # Nothing /\ ofWhom[t] = Nothing /\ ofWhom' = [ofWhom EXCEPT ![t] = i]

-----------------------------------------------------------------------------
(* A callback: exchange, then linkOAuth or linkToUser *)

ExchangeCode(r, i, u, t) ==
    /\ CallAt(r, "idle")
    /\ Given(t, i)
    /\ live' = live \cup ({t} \ {Nothing})
    /\ CallBecomes(r, [NoCall EXCEPT !.kind = "signIn", !.at = "link",
                                     !.is = i, !.user = u, !.gained = t])
    /\ UNCHANGED <<rows, lost>>

\* findByIssuerAccountId; the unique key and the retry make one step of the search
\* and the insert.
LinkIdentity(r) ==
    LET known == {a \in rows : a.is = call[r].is} IN
    /\ CallAt(r, "link")
    /\ \/ /\ known = {}
          /\ rows' = rows \cup {[id |-> r, is |-> call[r].is, owner |-> call[r].user,
                                  refresh |-> call[r].gained]}
          /\ Ends(r)
       \/ /\ rows' = rows
          /\ \E a \in known : CallBecomes(r, [call[r] EXCEPT !.account = a, !.at = "update"])
    /\ UNCHANGED <<live, ofWhom, lost>>

\* Mutant: the row is found by its user.
UpdatesOfUser(account, a) == a.owner = account.owner

Updates(account, a) == a.id = account.id

\* domain/Accounts.ts, refreshTokens: all of the tokens are replaced, by nothing
\* where the provider gave none, and a row that is gone is not written.
ReplaceTokens(r) ==
    /\ CallAt(r, "update")
    /\ rows' = {IF Updates(call[r].account, a) THEN [a EXCEPT !.refresh = call[r].gained] ELSE a :
                   a \in rows}
    /\ Ends(r)
    /\ UNCHANGED <<live, ofWhom, lost>>

-----------------------------------------------------------------------------
(* accessToken and refreshTokens *)

Spends(kind, a, expiring) ==
    /\ a.refresh # Nothing
    /\ a.is \in Refreshable
    /\ kind = "accessToken" => expiring

\* Whether the stored access token is about to expire is the clock's business.
FindAccount(r, kind, a, expiring) ==
    /\ CallAt(r, "idle")
    /\ a \in rows
    /\ LET found == [NoCall EXCEPT !.kind = kind] IN
       CallBecomes(r, IF Spends(kind, a, expiring) THEN [found EXCEPT !.account = a, !.at = "post"]
                                                   ELSE [found EXCEPT !.at = "done"])
    /\ UNCHANGED <<rows, live, ofWhom, lost>>

\* A new access token, and a new refresh token for the old one or none.
Refresh(r, t) ==
    LET old == call[r].account.refresh IN
    /\ CallAt(r, "post")
    /\ old \in live
    /\ Given(t, ofWhom[old])
    /\ live' = IF t = Nothing THEN live ELSE (live \ {old}) \cup {t}
    /\ CallBecomes(r, [call[r] EXCEPT !.gained = t, !.at = "save"])
    /\ UNCHANGED <<rows, lost>>

\* Rejected or unavailable.
RefreshFails(r) ==
    /\ CallAt(r, "post")
    /\ Ends(r)
    /\ UNCHANGED <<rows, live, ofWhom, lost>>

\* The provider rotates and the answer is lost: the retry of a transport error
\* is rejected, and a timeout is not tried again.
RefreshLost(r) ==
    /\ CallAt(r, "post")
    /\ call[r].account.refresh \in live
    /\ live' = live \ {call[r].account.refresh}
    /\ lost' = lost \cup {call[r].account.id}
    /\ Ends(r)
    /\ UNCHANGED <<rows, ofWhom>>

\* Mutant: a token that was not rotated is written back as it was read.
PatchedWhole(account, gained, a) ==
    [a EXCEPT !.refresh = IF gained = Nothing THEN account.refresh ELSE gained]

\* A token that was not rotated is left out of the patch.
Patched(account, gained, a) == [a EXCEPT !.refresh = IF gained = Nothing THEN @ ELSE gained]

SaveTokens(r) ==
    /\ CallAt(r, "save")
    /\ rows' = {IF Updates(call[r].account, a)
                THEN Patched(call[r].account, call[r].gained, a) ELSE a : a \in rows}
    /\ Ends(r)
    /\ UNCHANGED <<live, ofWhom, lost>>

-----------------------------------------------------------------------------

\* What an unlink asks before is in Accounts.
Unlink(a) ==
    /\ a \in rows
    /\ rows' = rows \ {a}
    /\ UNCHANGED <<live, ofWhom, call, lost>>

\* Refused by a hook, failed or crashed: a rotated token may not be stored.
AbandonCall(r) ==
    /\ call[r].at \notin {"idle", "done"}
    /\ lost' = IF CallAt(r, "save") THEN lost \cup {call[r].account.id} ELSE lost
    /\ Ends(r)
    /\ UNCHANGED <<rows, live, ofWhom>>

TokensNext ==
    \/ \E a \in rows : Unlink(a)
    \/ \E r \in Caller :
        \/ \E i \in ProviderIdentity, u \in User, t \in Token \cup {Nothing} : ExchangeCode(r, i, u, t)
        \/ \E kind \in {"accessToken", "refreshTokens"}, a \in rows, expiring \in BOOLEAN :
                FindAccount(r, kind, a, expiring)
        \/ \E t \in Token \cup {Nothing} : Refresh(r, t)
        \/ LinkIdentity(r) \/ ReplaceTokens(r) \/ RefreshFails(r) \/ RefreshLost(r) \/ SaveTokens(r)
        \/ AbandonCall(r)

TokensSpec == TokensInit /\ [][TokensNext]_tokenVars

-----------------------------------------------------------------------------

TokensTypeOK ==
    /\ rows \subseteq Account
    /\ live \subseteq Token
    /\ ofWhom \in [Token -> ProviderIdentity \cup {Nothing}]
    /\ call \in [Caller -> CallState]
    /\ lost \subseteq Id

\* A token that was fetched for a row read earlier never reaches another identity,
\* also when the account was unlinked, or linked anew, meanwhile.
TokensOfTheirIdentity ==
    \A a \in rows : a.refresh # Nothing => ofWhom[a.refresh] = a.is

\* However refreshes, rotations and sign-ins interleave, a spent refresh token is
\* never left in, or put back into, an account, except by an answer that was lost:
\* it is spent only while whoever spent it is about to write the new one.
NotStranded ==
    \A a \in rows :
        \/ a.refresh \in live \cup {Nothing}
        \/ a.id \in lost
        \/ \E r \in Caller :
                CallAt(r, "save") /\ call[r].account.id = a.id /\ call[r].account.refresh = a.refresh
=============================================================================
