------------------------------ MODULE Sessions ------------------------------
(***************************************************************************)
(* One user who signs in on several devices: codes sent to the phone,      *)
(* their cooldown and lockout, passwords and their reset, refresh tokens   *)
(* and the revocations of them in Redis and in the database, and the       *)
(* cached permissions of the user.                                         *)
(*                                                                         *)
(* A device has one request under way at most; op[d] is the place of its   *)
(* handler between two statements, where it may die.  Codes and tokens     *)
(* that nobody can use any more give their names back.                     *)
(***************************************************************************)
EXTENDS Naturals, Sequences, FiniteSets

CONSTANTS
    Devices,
    Patient,                    \* devices whose user goes on until signed in
    Cooldown, Ttl, Lockout,     \* OTP_COOLDOWN_MS, OTP_TTL_MS and LOCKOUT_MS, in ticks of the clock
    MAX_ATTEMPTS,
    CacheTtl,                   \* PERMISSION_CACHE_TTL_SECONDS, in ticks
    MaxCodes, MaxTokens,        \* bounds: codes and tokens alive at once
    Scenarios                   \* circumstances, one of which is chosen at the start

ASSUME SomeUsers == IsFiniteSet(Devices) /\ Patient \subseteq Devices
ASSUME OfficeApart == "office" \notin Devices
ASSUME Durations ==
    /\ Cooldown \in Nat /\ Ttl \in Nat /\ Lockout \in Nat /\ CacheTtl \in Nat
    /\ Cooldown < Ttl /\ Ttl < Lockout
ASSUME SomeAttempts == MAX_ATTEMPTS \in Nat \ {0} /\ MaxCodes \in Nat /\ MaxTokens \in Nat

(* The devices used, and those that codes are entered on; what for, nothing *)
(* when they are signed in and ask for permissions; whether codes are      *)
(* mistyped; what becomes of sessions; whether revocations are in Redis or *)
(* in memory; whether the account is suspended or deleted; how often       *)
(* handlers die or messages get lost.                                      *)
Scenario == [users : SUBSET Devices, phones : SUBSET Devices, aims : SUBSET {"signIn", "reset"},
             mistype : BOOLEAN, sessions : SUBSET {"refresh", "logout", "switch", "expire"},
             redis : BOOLEAN, office : BOOLEAN, crashes : Nat]
ASSUME SomeScenario == Scenarios \subseteq Scenario

Codes == 1 .. MaxCodes
Tokens == 1 .. MaxTokens

VARIABLES
    scenario,
    crashes,    \* handlers that died and messages that were lost so far
    standing,   \* of the account: "good", "barred" or "deleted"
    password,   \* users.passwordSetAt is not null
    otps,       \* the user's otp_sessions, oldest first
    token,      \* the refresh token a device holds, 0 for none
    setup,      \* devices that hold a setup token
    revoked,    \* refresh tokens revoked in Redis, or in memory
    ended,      \* refresh tokens with revokedAt, or past expiresAt, in the database
    excused,    \* history: tokens that expired, or that a reset found in use
    role,       \* the membership of the user
    cache,      \* cached permissions: of which role, and for how long
    op          \* where the handler of each device stands

account == <<scenario, crashes, standing, password>>
tokens == <<token, setup, revoked, ended, excused>>
permissions == <<role, cache>>
vars == <<account, otps, tokens, permissions, op>>

Idle == [at |-> "idle", code |-> 0, aim |-> "none", barred |-> FALSE, needs |-> FALSE,
         todo |-> {}, left |-> {}]
NoEntry == [role |-> "none", age |-> 0]
Roles == {"OWNER", "STAFF"}

Init ==
    /\ scenario \in Scenarios /\ crashes = 0
    /\ standing = "good"
    /\ password = ("signIn" \notin scenario.aims)
    /\ otps = <<>>
    /\ token = [d \in Devices |-> 0] /\ setup = {}
    /\ revoked = {} /\ ended = {} /\ excused = {}
    /\ role = "STAFF" /\ cache = NoEntry
    /\ op = [d \in Devices \cup {"office"} |-> Idle]

At(d, place) == op[d].at = place
Signing == scenario.aims # {}
Resting(d) == d \in scenario.users /\ At(d, "idle")
Goes(d, next) == op' = [op EXCEPT ![d] = next]
Moves(d, place) == Goes(d, [op[d] EXCEPT !.at = place])
Ends(d) == Goes(d, Idle)

-----------------------------------------------------------------------------
(* Codes.                                                                  *)
Newest == otps[Len(otps)]

(* Mutant: no end of the lockout. *)
LockedForEver == otps # <<>> /\ Newest.attempts >= MAX_ATTEMPTS /\ ~Newest.verified

Cooling == otps # <<>> /\ Newest.age < Cooldown
Locked == /\ otps # <<>> /\ Newest.attempts >= MAX_ATTEMPTS /\ ~Newest.verified
          /\ Newest.age < Lockout

RequestOtp(d) ==
    /\ Signing /\ Resting(d) /\ d \in scenario.phones /\ token[d] = 0
    /\ standing # "deleted"
    /\ ~Cooling /\ ~Locked
    /\ Moves(d, "create")
    /\ UNCHANGED <<account, otps, tokens, permissions>>

(* The session is in the database before the message is on its way, which  *)
(* may fail.                                                               *)
FreeCodes == Codes \ ({otps[i].code : i \in DOMAIN otps} \cup {op[d].code : d \in Devices})

CreateOtp(d, sent) ==
    /\ At(d, "create")
    /\ sent \/ crashes < scenario.crashes
    /\ crashes' = IF sent THEN crashes ELSE crashes + 1
    /\ \E c \in FreeCodes :
           /\ \A e \in FreeCodes : c <= e
           /\ otps' = Append(otps, [code |-> c, age |-> 0, attempts |-> 0,
                                   verified |-> FALSE, sent |-> sent])
    /\ Ends(d)
    /\ UNCHANGED <<scenario, standing, password, tokens, permissions>>

(* verifyOtp takes the newest session that is neither verified nor         *)
(* expired, whichever code of the phone, or wrong one, was entered.        *)
Answerable == {i \in DOMAIN otps : ~otps[i].verified /\ otps[i].age < Ttl}
Latest == CHOOSE i \in Answerable : \A j \in Answerable : j <= i
Received == {otps[i].code : i \in {j \in DOMAIN otps : otps[j].sent}}

(* Mutant: one attempt more. *)
AttemptsLeftInclusive == otps[Latest].attempts <= MAX_ATTEMPTS

AttemptsLeft == otps[Latest].attempts < MAX_ATTEMPTS

VerifyOtp(d, code, aim) ==
    /\ aim \in scenario.aims /\ Resting(d) /\ d \in scenario.phones /\ token[d] = 0
    /\ code = 0 => scenario.mistype
    /\ aim = "reset" => password /\ standing # "deleted"
    /\ Answerable # {} /\ AttemptsLeft
    /\ Goes(d, [Idle EXCEPT !.at = IF code = otps[Latest].code THEN "right" ELSE "wrong",
                            !.code = otps[Latest].code, !.aim = aim,
                            !.barred = aim = "reset" /\ standing # "good"])
    /\ UNCHANGED <<account, otps, tokens, permissions>>

WrongCode(d) ==
    /\ At(d, "wrong")
    /\ otps' = [i \in DOMAIN otps |->
                   IF otps[i].code = op[d].code THEN [otps[i] EXCEPT !.attempts = @ + 1] ELSE otps[i]]
    /\ Ends(d)
    /\ UNCHANGED <<account, tokens, permissions>>

RightCode(d) ==
    /\ At(d, "right")
    /\ otps' = [i \in DOMAIN otps |->
                   IF otps[i].code = op[d].code THEN [otps[i] EXCEPT !.verified = TRUE] ELSE otps[i]]
    /\ Goes(d, [op[d] EXCEPT !.at = "gate", !.code = 0])
    /\ UNCHANGED <<account, tokens, permissions>>

-----------------------------------------------------------------------------
(* Signing in.  The gate reads the account, and whether it has a password. *)
(* A reset has read the user before the code was verified; of a guardian   *)
(* the gate reads the guardian's row all the same.                         *)
Gate(d) ==
    LET resets == op[d].aim = "reset" IN
    /\ At(d, "gate")
    /\ \/ (standing # "good" \/ op[d].barred) /\ Ends(d)
       \/ /\ IF resets THEN ~op[d].barred ELSE standing = "good"
          /\ Goes(d, [op[d] EXCEPT !.at = IF resets THEN "write" ELSE "answer",
                                  !.aim = "none", !.needs = op[d].aim = "signIn" /\ ~password])
    /\ UNCHANGED <<account, otps, tokens, permissions>>

SignInWithPassword(d) ==
    /\ Signing /\ Resting(d) /\ token[d] = 0
    /\ password /\ standing = "good"
    /\ Moves(d, "answer")
    /\ UNCHANGED <<account, otps, tokens, permissions>>

SetPassword(d) ==
    /\ Resting(d) /\ d \in setup
    /\ password' = TRUE
    /\ setup' = setup \ {d}
    /\ Moves(d, "answer")
    /\ UNCHANGED <<scenario, crashes, standing, otps, token, revoked, ended, excused, permissions>>

InUse == ({token[d] : d \in Devices} \ {0}) \cup UNION {op[d].todo \cup op[d].left : d \in Devices}
FreeTokens == Tokens \ InUse

(* issueTokens inserts the row of a new token; the device puts it in place *)
(* of the one it had.                                                      *)
Issue(d) ==
    \E t \in FreeTokens :
        /\ \A u \in FreeTokens : t <= u
        /\ token' = [token EXCEPT ![d] = t]
        /\ revoked' = revoked \ {t} /\ ended' = ended \ {t} /\ excused' = excused \ {t}

(* buildAuthResponse: tokens, or a setup token for a user without a        *)
(* password.                                                               *)
Answer(d) ==
    /\ At(d, "answer") /\ Ends(d)
    /\ \/ standing = "deleted" /\ UNCHANGED tokens
       \/ /\ standing # "deleted" /\ (op[d].needs \/ ~password)
          /\ setup' = setup \cup {d}
          /\ UNCHANGED <<token, revoked, ended, excused>>
       \/ standing # "deleted" /\ ~op[d].needs /\ password /\ Issue(d) /\ UNCHANGED setup
    /\ UNCHANGED <<account, otps, permissions>>

(* A reset writes the password, lists the tokens that are not revoked in   *)
(* the database, and revokes each in Redis and then there.                 *)
ResetPassword(d) ==
    /\ At(d, "write")
    /\ password' = TRUE
    /\ Moves(d, "list")
    /\ UNCHANGED <<scenario, crashes, standing, otps, tokens, permissions>>

ListTokens(d) ==
    LET active == InUse \ ended IN
    /\ At(d, "list")
    /\ Goes(d, [op[d] EXCEPT !.at = "revoke", !.todo = active])
    /\ excused' = excused \cup InUse
    /\ UNCHANGED <<account, otps, token, setup, revoked, ended, permissions>>

RevokeOne(d, t) ==
    /\ At(d, "revoke") /\ t \in op[d].todo
    /\ revoked' = revoked \cup {t}
    /\ Goes(d, [op[d] EXCEPT !.todo = @ \ {t}, !.left = @ \cup {t}])
    /\ UNCHANGED <<account, otps, token, setup, ended, excused, permissions>>

EndOne(d, t) ==
    /\ At(d, "revoke") /\ t \in op[d].left
    /\ ended' = ended \cup {t}
    /\ Goes(d, [op[d] EXCEPT !.left = @ \ {t}])
    /\ UNCHANGED <<account, otps, token, setup, revoked, excused, permissions>>

Revoked(d) ==
    /\ At(d, "revoke") /\ op[d].todo = {} /\ op[d].left = {}
    /\ Moves(d, "answer")
    /\ UNCHANGED <<account, otps, tokens, permissions>>

-----------------------------------------------------------------------------
(* Refreshing, leaving, changing the organisation.                         *)
Usable(t) == t \notin revoked \cup ended

Drop(d) == token' = [token EXCEPT ![d] = 0]

Refresh(d) ==
    /\ "refresh" \in scenario.sessions /\ Resting(d) /\ token[d] # 0 /\ Usable(token[d])
    /\ Moves(d, "rotate")
    /\ UNCHANGED <<account, otps, tokens, permissions>>

RefreshRefused(d) ==
    /\ Resting(d) /\ token[d] # 0 /\ ~Usable(token[d])
    /\ Drop(d)
    /\ UNCHANGED <<account, otps, setup, revoked, ended, excused, permissions, op>>

(* Mutant: all tokens of the user. *)
RotateAll(d) ==
    /\ At(d, "rotate")
    /\ revoked' = revoked \cup InUse
    /\ Moves(d, "reissue")
    /\ UNCHANGED <<account, otps, token, setup, ended, excused, permissions>>

(* The old token is revoked in Redis only, then its successor issued.      *)
Rotate(d) ==
    /\ At(d, "rotate")
    /\ revoked' = revoked \cup {token[d]}
    /\ Moves(d, "reissue")
    /\ UNCHANGED <<account, otps, token, setup, ended, excused, permissions>>

Reissue(d) ==
    /\ At(d, "reissue") /\ Ends(d)
    /\ \/ standing = "deleted" /\ Drop(d) /\ UNCHANGED <<revoked, ended, excused>>
       \/ standing # "deleted" /\ Issue(d)
    /\ UNCHANGED <<account, otps, setup, permissions>>

Logout(d) ==
    /\ "logout" \in scenario.sessions /\ Resting(d) /\ token[d] # 0
    /\ Drop(d)
    /\ Goes(d, [op[d] EXCEPT !.at = "logout", !.todo = {token[d]}])
    /\ UNCHANGED <<account, otps, setup, revoked, ended, excused, permissions>>

LogoutRevokes(d) ==
    /\ At(d, "logout") /\ op[d].todo # {}
    /\ revoked' = revoked \cup op[d].todo
    /\ Goes(d, [op[d] EXCEPT !.todo = {}, !.left = op[d].todo])
    /\ UNCHANGED <<account, otps, token, setup, ended, excused, permissions>>

LogoutEnds(d) ==
    /\ At(d, "logout") /\ op[d].todo = {}
    /\ ended' = ended \cup op[d].left
    /\ Ends(d)
    /\ UNCHANGED <<account, otps, token, setup, revoked, excused, permissions>>

SetContext(d) ==
    /\ "switch" \in scenario.sessions /\ Resting(d) /\ token[d] # 0
    /\ standing # "deleted"
    /\ Issue(d)
    /\ UNCHANGED <<account, otps, setup, permissions, op>>

-----------------------------------------------------------------------------
(* Permissions.                                                            *)
(* Mutant: a hit keeps the entry for another while. *)
ResolveSliding(d) ==
    /\ ~Signing /\ Resting(d)
    /\ IF cache = NoEntry
       THEN Goes(d, [Idle EXCEPT !.at = "load"]) /\ UNCHANGED cache
       ELSE cache' = [cache EXCEPT !.age = 0] /\ UNCHANGED op
    /\ UNCHANGED <<account, otps, tokens, role>>

(* A hit changes nothing.                                                  *)
Resolve(d) ==
    /\ ~Signing /\ Resting(d)
    /\ cache = NoEntry
    /\ Goes(d, [Idle EXCEPT !.at = "load"])
    /\ UNCHANGED <<account, otps, tokens, permissions>>

LoadFromDb(d) ==
    /\ At(d, "load")
    /\ Goes(d, [op[d] EXCEPT !.at = "store", !.aim = role])
    /\ UNCHANGED <<account, otps, tokens, permissions>>

CacheSet(d) ==
    /\ At(d, "store")
    /\ cache' = [role |-> op[d].aim, age |-> 0]
    /\ Ends(d)
    /\ UNCHANGED <<account, otps, tokens, role>>

(* inviteMember and removeMember write the membership, the audit log, and  *)
(* then delete the entries of the user.                                    *)
ChangeRole(r) ==
    /\ ~Signing /\ At("office", "idle") /\ r # role
    /\ role' = r
    /\ Moves("office", "invalidate")
    /\ UNCHANGED <<account, otps, tokens, cache>>

InvalidateUser ==
    /\ At("office", "invalidate")
    /\ cache' = NoEntry
    /\ Ends("office")
    /\ UNCHANGED <<account, otps, tokens, role>>

-----------------------------------------------------------------------------
(* Suspension and reactivation; a deletion also ends the tokens and takes  *)
(* the password away.                                                      *)
AccountBecomes(s) ==
    /\ scenario.office /\ standing \notin {s, "deleted"}
    /\ standing' = s
    /\ UNCHANGED <<scenario, crashes, password, otps, tokens, permissions, op>>

DeleteUser ==
    /\ scenario.office /\ standing # "deleted"
    /\ standing' = "deleted" /\ password' = FALSE
    /\ ended' = ended \cup InUse /\ excused' = excused \cup InUse
    /\ UNCHANGED <<scenario, crashes, otps, token, setup, revoked, permissions, op>>

(* Time passes for codes and cached permissions, up to the end of the      *)
(* lockout; a session that neither verifyOtp nor requestOtp can read any   *)
(* more is forgotten.                                                      *)
Readable(i) == i = Len(otps) \/ (~otps[i].verified /\ otps[i].age + 1 < Ttl)
Older(r) == [r EXCEPT !.age = IF @ < Lockout THEN @ + 1 ELSE @]
Ages ==
    LET keeps == {i \in DOMAIN otps : Readable(i)}
        nth(n) == CHOOSE i \in keeps : Cardinality({j \in keeps : j < i}) = n - 1
    IN [n \in 1 .. Cardinality(keeps) |-> Older(otps[nth(n)])]

Clock ==
    /\ otps' = Ages
    /\ cache' = IF cache = NoEntry \/ cache.age + 1 >= CacheTtl THEN NoEntry
                ELSE [cache EXCEPT !.age = @ + 1]
    /\ UNCHANGED <<account, tokens, role, op>>

TokenExpires(t) ==
    /\ "expire" \in scenario.sessions /\ t \in InUse \ ended
    /\ ended' = ended \cup {t}
    /\ excused' = excused \cup {t}
    /\ UNCHANGED <<account, otps, token, setup, revoked, permissions, op>>

SetupExpires(d) ==
    /\ "expire" \in scenario.sessions /\ d \in setup
    /\ setup' = setup \ {d}
    /\ UNCHANGED <<account, otps, token, revoked, ended, excused, permissions, op>>

(* A handler dies, and revocations in memory with its process.             *)
Crash(d) ==
    /\ crashes < scenario.crashes /\ ~At(d, "idle")
    /\ crashes' = crashes + 1
    /\ revoked' = IF scenario.redis THEN revoked ELSE {}
    /\ Ends(d)
    /\ UNCHANGED <<scenario, standing, password, otps, token, setup, ended, excused, permissions>>

-----------------------------------------------------------------------------
Handler(d) ==
    \/ (\E sent \in BOOLEAN : CreateOtp(d, sent)) \/ WrongCode(d) \/ RightCode(d) \/ Gate(d)
    \/ Answer(d) \/ ResetPassword(d) \/ ListTokens(d) \/ Revoked(d)
    \/ \E t \in Tokens : RevokeOne(d, t) \/ EndOne(d, t)
    \/ Rotate(d) \/ Reissue(d) \/ LogoutRevokes(d) \/ LogoutEnds(d)
    \/ LoadFromDb(d) \/ CacheSet(d)

Request(d) ==
    \/ RequestOtp(d) \/ SignInWithPassword(d) \/ SetPassword(d)
    \/ \E code \in Received \cup {0}, aim \in {"signIn", "reset"} : VerifyOtp(d, code, aim)
    \/ Refresh(d) \/ RefreshRefused(d) \/ Logout(d) \/ SetContext(d)
    \/ Resolve(d)

Next ==
    \/ \E d \in Devices : Request(d) \/ Handler(d) \/ SetupExpires(d)
    \/ (\E r \in Roles : ChangeRole(r)) \/ InvalidateUser
    \/ (\E s \in {"good", "barred"} : AccountBecomes(s)) \/ DeleteUser
    \/ \E t \in Tokens : TokenExpires(t)
    \/ Clock
    \/ \E d \in Devices \cup {"office"} : Crash(d)

Spec == Init /\ [][Next]_vars

(* Handlers come to an end and the clock goes on.  Who wants to sign in    *)
(* asks for a code when they may, enters the newest one while it counts,   *)
(* and sets a password.                                                    *)
EnterNewest(d) == Answerable # {} /\ VerifyOtp(d, otps[Latest].code, "signIn") /\ otps[Latest].sent

FairSpec ==
    /\ Spec
    /\ WF_vars(Clock) /\ WF_vars(InvalidateUser)
    /\ \A d \in Devices : WF_vars(Handler(d)) /\ WF_vars(RefreshRefused(d))
    /\ \A d \in Patient : SF_vars(RequestOtp(d)) /\ SF_vars(EnterNewest(d)) /\ SF_vars(SetPassword(d))

-----------------------------------------------------------------------------
Places == {"idle", "create", "right", "wrong", "gate", "answer", "write", "list", "revoke", "rotate",
           "reissue", "logout", "load", "store", "invalidate"}

(* Rows, tokens and handlers have their types, and however many devices    *)
(* enter codes at the same time, a code is refused no more often than the  *)
(* limit and once for each of the others whose attempt was under way.      *)
TypeOK ==
    /\ scenario \in Scenario /\ crashes \in Nat
    /\ standing \in {"good", "barred", "deleted"} /\ password \in BOOLEAN
    /\ otps \in Seq([code : Codes, age : 0 .. Lockout, verified : BOOLEAN, sent : BOOLEAN,
                     attempts : 0 .. MAX_ATTEMPTS + Cardinality(Devices) - 1])
    /\ token \in [Devices -> Tokens \cup {0}] /\ setup \subseteq Devices
    /\ revoked \subseteq Tokens /\ ended \subseteq Tokens
    /\ excused \subseteq Tokens
    /\ role \in Roles /\ cache \in [role : Roles \cup {"none"}, age : Nat]
    /\ op \in [Devices \cup {"office"} ->
                [at : Places, code : Codes \cup {0}, aim : {"none", "signIn", "reset"} \cup Roles,
                 barred : BOOLEAN, needs : BOOLEAN, todo : SUBSET Tokens, left : SUBSET Tokens]]

(* As long as no handler dies: what one device does, its refresh, sign-in  *)
(* or logout, never signs another one out; only a reset does, of the       *)
(* tokens it found.                                                        *)
SessionsKept ==
    \A d \in Devices :
        Resting(d) /\ token[d] # 0 /\ crashes = 0 =>
            Usable(token[d]) \/ token[d] \in excused

(* A user with one device who goes on gets signed in, through cooldowns,   *)
(* lockouts after wrong codes, lost messages, expired codes and deaths of  *)
(* handlers, unless the account is barred.                                 *)
SignedIn(d) == token[d] # 0 /\ Usable(token[d])
SignsIn ==
    \A d \in Patient :
        scenario.users = {d} /\ d \in scenario.phones /\ "signIn" \in scenario.aims /\ ~SignedIn(d)
            ~> SignedIn(d) \/ standing # "good"

(* However requests and changes of the membership overlap, and where the   *)
(* invalidation dies: permissions of a role the user does not have do not  *)
(* stay in the cache.                                                      *)
Outdated == cache.role \notin {"none", role}
OutdatedGetsDropped == Outdated ~> ~Outdated
=============================================================================
