--------------------------- MODULE Sessions_proofs ---------------------------
(***************************************************************************)
(* No device signs another one out, and a code is not tried much more      *)
(* often than its limit: for every number of devices, tokens and codes,    *)
(* whatever overlaps.                                                      *)
(*                                                                         *)
(* That a token in use is usable is not inductive: a handler may hold a    *)
(* list of tokens it is about to revoke.  The invariant says whose they    *)
(* are: those of a logout are nobody's any more, those of a reset were     *)
(* found in use and are excused, and no two devices have the same.         *)
(***************************************************************************)
EXTENDS Sessions, FiniteSetTheorems, TLAPS

Hands == Devices \cup {"office"}
Fields == {"at", "code", "aim", "barred", "needs", "todo", "left"}

(* Handlers have a place, and devices one token at most. *)
Shaped ==
    /\ crashes \in Nat
    /\ op = [d \in Hands |-> op[d]] /\ \A d \in Hands : DOMAIN op[d] = Fields
    /\ token \in [Devices -> Tokens \cup {0}]

(* Only a logout and a reset have tokens to revoke. *)
Listed(d) == op[d].todo \cup op[d].left
OnlyListed == \A d \in Devices : op[d].at \notin {"revoke", "logout"} => Listed(d) = {}

(* No two devices hold the same token. *)
OwnTokens == \A d, e \in Devices : d # e /\ token[d] # 0 => token[d] # token[e]

(* Who is logging out has given up the token that is being revoked. *)
GivenUp ==
    \A d, e \in Devices : op[d].at = "logout" /\ token[e] # 0 => token[e] \notin Listed(d)

(* What a reset is about to revoke it has found in use. *)
Found == \A d \in Devices : op[d].at = "revoke" => Listed(d) \subseteq excused

(* A token is revoked for its own refresh, or excused. *)
Kept ==
    crashes = 0 => \A d \in Devices :
        token[d] # 0 /\ op[d].at # "reissue" => Usable(token[d]) \/ token[d] \in excused

IInv == Shaped /\ OnlyListed /\ OwnTokens /\ GivenUp /\ Found /\ Kept

-----------------------------------------------------------------------------
(* The invariant holds initially. *)
LEMMA InvInit == Init => IInv
  BY OfficeApart DEF Init, IInv, Shaped, OnlyListed, OwnTokens, GivenUp, Found, Kept, Listed, Hands,
     Fields, Idle, Usable

(* A new token is one that no device holds and no handler has listed, and  *)
(* counts as neither revoked nor ended.                                    *)
LEMMA IssuedIsNew ==
    ASSUME Shaped, NEW d \in Devices, Issue(d)
    PROVE  \E t \in Tokens :
              /\ token' = [token EXCEPT ![d] = t]
              /\ revoked' = revoked \ {t} /\ ended' = ended \ {t} /\ excused' = excused \ {t}
              /\ t # 0
              /\ \A e \in Devices : t # token[e] /\ t \notin Listed(e)
  <1>1. PICK t \in FreeTokens :
           /\ token' = [token EXCEPT ![d] = t]
           /\ revoked' = revoked \ {t} /\ ended' = ended \ {t} /\ excused' = excused \ {t}
    BY DEF Issue
  <1>2. t \in Tokens /\ t # 0
    BY SomeAttempts DEF FreeTokens, Tokens
  <1>3. ASSUME NEW e \in Devices PROVE t # token[e] /\ t \notin Listed(e)
    <2>1. t \notin InUse
      BY DEF FreeTokens
    <2>2. t \notin op[e].todo \cup op[e].left
      BY <2>1 DEF InUse
    <2> QED
      BY <1>2, <2>1, <2>2 DEF InUse, Listed
  <1> QED
    BY <1>1, <1>2, <1>3

-----------------------------------------------------------------------------
(* A step that leaves tokens alone, and lists nothing. *)
LEMMA QuietStep ==
    ASSUME IInv, NEW d \in Hands, NEW p,
           op' = [op EXCEPT ![d] = p], DOMAIN p = Fields, p.todo \cup p.left = {},
           p.at \notin {"reissue", "revoke", "logout"}, op[d].at # "reissue",
           UNCHANGED <<token, revoked, ended, excused>>, crashes' \in Nat, crashes' = 0 => crashes = 0
    PROVE  IInv'
  <1> USE DEF IInv
  <1>1. /\ DOMAIN op' = Hands /\ \A e \in Hands : op'[e] = IF e = d THEN p ELSE op[e]
    BY DEF Shaped
  <1>2. Shaped'
    BY <1>1 DEF Shaped
  <1>3. \A e \in Devices : Listed(e)' = IF e = d THEN {} ELSE Listed(e)
    BY <1>1 DEF Listed, Hands
  <1>4. OnlyListed' /\ GivenUp' /\ Found'
    BY <1>1, <1>3 DEF OnlyListed, GivenUp, Found, Hands
  <1>5. OwnTokens'
    BY DEF OwnTokens
  <1>6. Kept'
    BY <1>1 DEF Kept, Usable, Hands
  <1> QED
    BY <1>2, <1>4, <1>5, <1>6

(* A handler that lists nothing hands out a new token. *)
LEMMA IssueStep ==
    ASSUME IInv, NEW d \in Devices, NEW p,
           op' = [op EXCEPT ![d] = p], DOMAIN p = Fields, p.todo \cup p.left = {},
           p.at \notin {"reissue", "revoke", "logout"},
           Issue(d), crashes' = crashes
    PROVE  IInv'
  <1> USE DEF IInv
  <1>1. /\ DOMAIN op' = Hands /\ \A e \in Hands : op'[e] = IF e = d THEN p ELSE op[e]
    BY DEF Shaped, Hands
  <1>2. PICK t \in Tokens :
           /\ token' = [token EXCEPT ![d] = t]
           /\ revoked' = revoked \ {t} /\ ended' = ended \ {t} /\ excused' = excused \ {t}
           /\ t # 0
           /\ \A e \in Devices : t # token[e] /\ t \notin Listed(e)
    BY IssuedIsNew
  <1>3. /\ token' \in [Devices -> Tokens \cup {0}]
        /\ \A e \in Devices : token'[e] = IF e = d THEN t ELSE token[e]
    BY <1>2 DEF Shaped
  <1>4. Shaped'
    BY <1>1, <1>3 DEF Shaped
  <1>5. \A e \in Devices : Listed(e)' = IF e = d THEN {} ELSE Listed(e)
    BY <1>1 DEF Listed, Hands
  <1>6. OnlyListed' /\ OwnTokens'
    BY <1>1, <1>2, <1>3, <1>5 DEF OnlyListed, OwnTokens, Hands
  <1>7. GivenUp'
    BY <1>1, <1>2, <1>3, <1>5 DEF GivenUp, Hands
  <1>8. Found'
    BY <1>1, <1>2, <1>5 DEF Found, Hands
  <1>9. Kept'
    BY <1>1, <1>2, <1>3 DEF Kept, Usable, Hands
  <1> QED
    BY <1>4, <1>6, <1>7, <1>8, <1>9

(* A device gives its token up, and may go on to log out with it. *)
LEMMA DropStep ==
    ASSUME IInv, NEW d \in Devices, NEW p,
           op' = [op EXCEPT ![d] = p], DOMAIN p = Fields,
           \/ p.todo \cup p.left = {} /\ p.at \notin {"revoke", "logout"}
           \/ p.at = "logout" /\ p.todo \cup p.left = {token[d]} /\ token[d] # 0,
           Drop(d), UNCHANGED <<revoked, ended, excused>>, crashes' = crashes
    PROVE  IInv'
  <1> USE DEF IInv
  <1>1. /\ DOMAIN op' = Hands /\ \A e \in Hands : op'[e] = IF e = d THEN p ELSE op[e]
    BY DEF Shaped, Hands
  <1>2. /\ token' \in [Devices -> Tokens \cup {0}]
        /\ \A e \in Devices : token'[e] = IF e = d THEN 0 ELSE token[e]
    BY DEF Shaped, Drop
  <1>3. Shaped'
    BY <1>1, <1>2 DEF Shaped
  <1>4. \A e \in Devices : Listed(e)' = IF e = d THEN p.todo \cup p.left ELSE Listed(e)
    BY <1>1 DEF Listed, Hands
  <1>5. OnlyListed' /\ OwnTokens'
    BY <1>1, <1>2, <1>4 DEF OnlyListed, OwnTokens, Hands
  <1>6. GivenUp'
    <2> SUFFICES ASSUME NEW c \in Devices, NEW e \in Devices, op'[c].at = "logout",
                        token'[e] # 0
                 PROVE  token'[e] \notin Listed(c)'
      BY DEF GivenUp
    <2>1. CASE c = d
      BY <1>1, <1>2, <1>4, <2>1 DEF OwnTokens, Hands
    <2>2. CASE c # d
      BY <1>1, <1>2, <1>4, <2>2 DEF GivenUp, Hands
    <2> QED
      BY <2>1, <2>2
  <1>7. Found' /\ Kept'
    BY <1>1, <1>2, <1>4 DEF Found, Kept, Usable, Hands
  <1> QED
    BY <1>3, <1>5, <1>6, <1>7

(* What a step of handler d revokes or ends is excused, or held by no      *)
(* device but d, which is about to get another token.                      *)
Spared(d, p) ==
    \A t \in (revoked' \cup ended') \ (revoked \cup ended) :
        \/ t \in excused'
        \/ \A e \in Devices : token[e] = t /\ t # 0 => e = d /\ p.at = "reissue"

(* More tokens are revoked, ended or excused: those of no device, those of *)
(* a device about to get another one, or those excused.                    *)
LEMMA RevokeStep ==
    ASSUME IInv, NEW d \in Hands, NEW p,
           op' = [op EXCEPT ![d] = p], DOMAIN p = Fields,
           op[d].at # "reissue",
           d \in Devices =>
               \/ p.todo \cup p.left = {} /\ p.at \notin {"revoke", "logout"}
               \/ p.at = "revoke" /\ p.todo \cup p.left \subseteq excused'
               \/ p.at = "logout" /\ op[d].at = "logout" /\ p.todo \cup p.left \subseteq Listed(d),
           excused \subseteq excused',
           Spared(d, p), token' = token, crashes' = crashes
    PROVE  IInv'
  <1> USE DEF IInv
  <1>1. /\ DOMAIN op' = Hands /\ \A e \in Hands : op'[e] = IF e = d THEN p ELSE op[e]
    BY DEF Shaped
  <1>2. Shaped'
    BY <1>1 DEF Shaped
  <1>3. \A e \in Devices : Listed(e)' = IF e = d THEN p.todo \cup p.left ELSE Listed(e)
    BY <1>1 DEF Listed, Hands
  <1>4. OnlyListed' /\ OwnTokens'
    BY <1>1, <1>3 DEF OnlyListed, OwnTokens, Hands
  <1>5. GivenUp' /\ Found'
    BY <1>1, <1>3 DEF GivenUp, Found, Hands
  <1>6. Kept'
    <2> SUFFICES ASSUME crashes = 0, NEW e \in Devices, token[e] # 0, op'[e].at # "reissue",
                        ~(token[e] \in excused')
                 PROVE  token[e] \notin revoked' \cup ended'
      BY DEF Kept, Usable
    <2>1. op[e].at # "reissue"
      BY <1>1 DEF Hands
    <2>2. token[e] \notin revoked \cup ended
      BY <2>1 DEF Kept, Usable
    <2>3. CASE token[e] \in excused'
      BY <2>3
    <2>4. CASE e = d
      BY <1>1, <2>2, <2>4 DEF Hands, Spared
    <2>5. CASE e # d
      BY <2>2, <2>5 DEF Spared
    <2> QED
      BY <2>3, <2>4, <2>5
  <1> QED
    BY <1>2, <1>4, <1>5, <1>6

-----------------------------------------------------------------------------
(* An idle handler has listed nothing. *)
LEMMA IdleParts ==
    DOMAIN Idle = Fields /\ Idle.at = "idle" /\ Idle.todo \cup Idle.left = {}
  BY DEF Idle, Fields

(* Going to another place keeps what a handler has listed. *)
LEMMA MoveParts ==
    ASSUME IInv, NEW d \in Devices, NEW a
    PROVE  LET p == [op[d] EXCEPT !.at = a]
           IN  DOMAIN p = Fields /\ p.at = a /\ p.todo \cup p.left = Listed(d)
  BY DEF IInv, Shaped, Fields, Hands, Listed

(* A handler other than those of refresh ends. *)
LEMMA QuietEnd ==
    ASSUME IInv, NEW d \in Hands, Ends(d), op[d].at # "reissue", UNCHANGED tokens,
           crashes' \in Nat, crashes' = 0 => crashes = 0
    PROVE  IInv'
  BY IdleParts, QuietStep DEF Ends, Goes, tokens

(* A handler that has listed nothing goes on. *)
LEMMA QuietMove ==
    ASSUME IInv, NEW d \in Devices, NEW a, Moves(d, a),
           op[d].at \notin {"revoke", "logout", "reissue"}, a \notin {"revoke", "logout", "reissue"},
           UNCHANGED tokens, crashes' = crashes
    PROVE  IInv'
  <1> DEFINE p == [op[d] EXCEPT !.at = a]
  <1>1. DOMAIN p = Fields /\ p.at = a /\ p.todo \cup p.left = {}
    BY MoveParts DEF IInv, OnlyListed
  <1>2. d \in Hands /\ crashes' \in Nat /\ op' = [op EXCEPT ![d] = p]
    BY DEF Hands, IInv, Shaped, Moves, Goes
  <1> QED
    BY <1>1, <1>2, QuietStep DEF tokens

(* Codes, passwords and permissions touch no token. *)
LEMMA CodeStep ==
    ASSUME IInv, NEW d \in Devices,
           \/ RequestOtp(d) \/ (\E sent \in BOOLEAN : CreateOtp(d, sent)) \/ WrongCode(d) \/ RightCode(d)
           \/ Gate(d) \/ SignInWithPassword(d) \/ ResetPassword(d)
           \/ \E code \in Received \cup {0}, aim \in {"signIn", "reset"} : VerifyOtp(d, code, aim)
    PROVE  IInv'
  <1>0. d \in Hands /\ crashes \in Nat /\ DOMAIN op[d] = Fields
    BY DEF Hands, IInv, Shaped
  <1>1. op[d].at \notin {"revoke", "logout"} => op[d].todo \cup op[d].left = {}
    BY DEF IInv, OnlyListed, Listed
  <1>2. CASE RequestOtp(d)
    BY <1>2, QuietMove DEF RequestOtp, Resting, At, account
  <1>3. ASSUME NEW sent \in BOOLEAN, CreateOtp(d, sent) PROVE IInv'
    <2>1. crashes' \in Nat /\ (crashes' = 0 => crashes = 0)
      BY <1>0, <1>3 DEF CreateOtp
    <2> QED
      BY <1>0, <1>3, <2>1, QuietEnd DEF CreateOtp, At
  <1>4. CASE WrongCode(d)
    BY <1>0, <1>4, QuietEnd DEF WrongCode, At, account
  <1>5. CASE RightCode(d)
    <2> DEFINE p == [op[d] EXCEPT !.at = "gate", !.code = 0]
    <2>1. op' = [op EXCEPT ![d] = p] /\ op[d].at = "right" /\ UNCHANGED tokens /\ crashes' = crashes
      BY <1>5 DEF RightCode, Goes, At, account
    <2>2. DOMAIN p = Fields /\ p.at = "gate" /\ p.todo \cup p.left = {}
      BY <1>0, <1>1, <2>1 DEF Fields
    <2> QED
      BY <1>0, <2>1, <2>2, QuietStep DEF tokens
  <1>6. CASE Gate(d)
    <2>1. op[d].at = "gate" /\ UNCHANGED tokens /\ crashes' = crashes
      BY <1>6 DEF Gate, At, account
    <2>2. CASE Ends(d)
      BY <1>0, <1>6, <2>1, <2>2, QuietEnd DEF Gate
    <2>3. CASE ~Ends(d)
      <3> DEFINE p == [op[d] EXCEPT !.at = IF op[d].aim = "reset" THEN "write" ELSE "answer",
                                    !.aim = "none", !.needs = op[d].aim = "signIn" /\ ~password]
      <3>1. op' = [op EXCEPT ![d] = p]
        BY <1>6, <2>3 DEF Gate, Goes
      <3>2. DOMAIN p = Fields /\ p.at \in {"write", "answer"} /\ p.todo \cup p.left = {}
        BY <1>0, <1>1, <2>1 DEF Fields
      <3> QED
        BY <1>0, <2>1, <3>1, <3>2, QuietStep DEF tokens
    <2> QED
      BY <2>2, <2>3
  <1>7. CASE SignInWithPassword(d)
    BY <1>7, QuietMove DEF SignInWithPassword, Resting, At, account
  <1>8. CASE ResetPassword(d)
    BY <1>8, QuietMove DEF ResetPassword, At
  <1>9. ASSUME NEW code \in Received \cup {0}, NEW aim \in {"signIn", "reset"}, VerifyOtp(d, code, aim)
        PROVE  IInv'
    <2> DEFINE p == [Idle EXCEPT !.at = IF code = otps[Latest].code THEN "right" ELSE "wrong",
                                 !.code = otps[Latest].code, !.aim = aim,
                                 !.barred = aim = "reset" /\ standing # "good"]
    <2>1. op' = [op EXCEPT ![d] = p] /\ op[d].at = "idle" /\ UNCHANGED tokens /\ crashes' = crashes
      BY <1>9 DEF VerifyOtp, Goes, Resting, At, account
    <2>2. DOMAIN p = Fields /\ p.at \in {"right", "wrong"} /\ p.todo \cup p.left = {}
      BY DEF Fields, Idle
    <2> QED
      BY <1>0, <2>1, <2>2, QuietStep DEF tokens
  <1> QED
    BY <1>2, <1>3, <1>4, <1>5, <1>6, <1>7, <1>8, <1>9

(* Whoever gets a token, a setup token, or neither, had listed nothing. *)
LEMMA SignInStep ==
    ASSUME IInv, NEW d \in Devices, SetPassword(d) \/ Answer(d) \/ SetContext(d)
    PROVE  IInv'
  <1>0. d \in Hands /\ crashes \in Nat
    BY DEF Hands, IInv, Shaped
  <1>1. CASE SetPassword(d)
    <2> DEFINE p == [op[d] EXCEPT !.at = "answer"]
    <2>1. op[d].at = "idle" /\ op' = [op EXCEPT ![d] = p] /\ crashes' = crashes
      BY <1>1 DEF SetPassword, Resting, At, Moves, Goes
    <2>2. DOMAIN p = Fields /\ p.at = "answer" /\ p.todo \cup p.left = {}
      BY <2>1, MoveParts DEF IInv, OnlyListed
    <2>3. UNCHANGED <<token, revoked, ended, excused>>
      BY <1>1 DEF SetPassword
    <2> QED
      BY <1>0, <2>1, <2>2, <2>3, QuietStep
  <1>2. CASE Answer(d)
    <2>1. op' = [op EXCEPT ![d] = Idle] /\ op[d].at = "answer" /\ crashes' = crashes
      BY <1>2 DEF Answer, Ends, Goes, At, account
    <2>2. CASE UNCHANGED <<token, revoked, ended, excused>>
      BY <1>0, <2>1, <2>2, IdleParts, QuietStep
    <2>3. CASE Issue(d)
      BY <2>1, <2>3, IdleParts, IssueStep
    <2> QED
      BY <1>2, <2>2, <2>3 DEF Answer, tokens
  <1>3. CASE SetContext(d)
    <2> DEFINE p == op[d]
    <2>1. op[d].at = "idle" /\ crashes' = crashes /\ Issue(d)
      BY <1>3 DEF SetContext, Resting, At, account
    <2>2. DOMAIN p = Fields /\ p.todo \cup p.left = {}
      BY <1>0, <2>1 DEF IInv, Shaped, OnlyListed, Listed
    <2>3. op' = [op EXCEPT ![d] = p]
      BY <1>0, <1>3 DEF SetContext, IInv, Shaped
    <2> QED
      BY <2>1, <2>2, <2>3, IssueStep
  <1> QED
    BY <1>1, <1>2, <1>3

(* A refresh revokes its own token. *)
LEMMA RefreshStep ==
    ASSUME IInv, NEW d \in Devices, Refresh(d) \/ RefreshRefused(d) \/ Rotate(d) \/ Reissue(d)
    PROVE  IInv'
  <1>0. d \in Hands /\ crashes \in Nat
    BY DEF Hands, IInv, Shaped
  <1>1. CASE Refresh(d)
    BY <1>1, QuietMove DEF Refresh, Resting, At, account
  <1>2. CASE RefreshRefused(d)
    <2> DEFINE p == op[d]
    <2>1. op[d].at = "idle" /\ crashes' = crashes /\ Drop(d) /\ UNCHANGED <<revoked, ended, excused>>
      BY <1>2 DEF RefreshRefused, Resting, At, account
    <2>2. DOMAIN p = Fields /\ p.todo \cup p.left = {}
      BY <1>0, <2>1 DEF IInv, Shaped, OnlyListed, Listed
    <2>3. op' = [op EXCEPT ![d] = p]
      BY <1>0, <1>2 DEF RefreshRefused, IInv, Shaped
    <2> QED
      BY <2>1, <2>2, <2>3, DropStep
  <1>3. CASE Rotate(d)
    <2> DEFINE p == [op[d] EXCEPT !.at = "reissue"]
    <2>1. op[d].at = "rotate" /\ op' = [op EXCEPT ![d] = p] /\ crashes' = crashes
      BY <1>3 DEF Rotate, At, Moves, Goes, account
    <2>2. DOMAIN p = Fields /\ p.at = "reissue" /\ p.todo \cup p.left = {}
      BY <2>1, MoveParts DEF IInv, OnlyListed
    <2>3. revoked' = revoked \cup {token[d]} /\ UNCHANGED <<token, ended, excused>>
      BY <1>3 DEF Rotate
    <2>4. \A e \in Devices : token[e] = token[d] /\ token[d] # 0 => e = d
      BY DEF IInv, OwnTokens
    <2>5. \A t \in (revoked' \cup ended') \ (revoked \cup ended) :
             \A e \in Devices : token[e] = t /\ t # 0 => e = d /\ p.at = "reissue"
      BY <2>2, <2>3, <2>4
    <2> HIDE DEF p
    <2> QED
      BY <1>0, <2>1, <2>2, <2>3, <2>5, RevokeStep DEF Spared
  <1>4. CASE Reissue(d)
    <2>1. op' = [op EXCEPT ![d] = Idle] /\ crashes' = crashes
      BY <1>4 DEF Reissue, Ends, Goes, account
    <2>2. CASE Drop(d) /\ UNCHANGED <<revoked, ended, excused>>
      BY <2>1, <2>2, IdleParts, DropStep
    <2>3. CASE Issue(d)
      BY <2>1, <2>3, IdleParts, IssueStep
    <2> QED
      BY <1>4, <2>2, <2>3 DEF Reissue
  <1> QED
    BY <1>1, <1>2, <1>3, <1>4

(* A logout revokes the token it has given up. *)
LEMMA LogoutStep ==
    ASSUME IInv, NEW d \in Devices, Logout(d) \/ LogoutRevokes(d) \/ LogoutEnds(d)
    PROVE  IInv'
  <1>0. d \in Hands /\ DOMAIN op[d] = Fields
    BY DEF Hands, IInv, Shaped
  <1>1. CASE Logout(d)
    <2> DEFINE p == [op[d] EXCEPT !.at = "logout", !.todo = {token[d]}]
    <2>1. op[d].at = "idle" /\ op' = [op EXCEPT ![d] = p] /\ crashes' = crashes /\ Drop(d)
          /\ token[d] # 0 /\ UNCHANGED <<revoked, ended, excused>>
      BY <1>1 DEF Logout, Resting, At, Goes, account
    <2>2. op[d].left = {}
      BY <2>1 DEF IInv, OnlyListed, Listed
    <2>3. DOMAIN p = Fields /\ p.at = "logout" /\ p.todo \cup p.left = {token[d]}
      BY <1>0, <2>2 DEF Fields
    <2> HIDE DEF p
    <2> QED
      BY <2>1, <2>3, DropStep
  <1>2. CASE LogoutRevokes(d)
    <2> DEFINE p == [op[d] EXCEPT !.todo = {}, !.left = op[d].todo]
    <2>1. op[d].at = "logout" /\ op' = [op EXCEPT ![d] = p] /\ crashes' = crashes
          /\ revoked' = revoked \cup op[d].todo /\ UNCHANGED <<token, ended, excused>>
      BY <1>2 DEF LogoutRevokes, At, Goes, account
    <2>2. DOMAIN p = Fields /\ p.at = "logout" /\ p.todo \cup p.left \subseteq Listed(d)
      BY <1>0, <2>1 DEF Fields, Listed
    <2>3. \A e \in Devices : token[e] # 0 => token[e] \notin op[d].todo
      BY <2>1 DEF IInv, GivenUp, Listed
    <2>4. Spared(d, p)
      BY <2>1, <2>3 DEF Spared
    <2> HIDE DEF p
    <2> QED
      BY <1>0, <2>1, <2>2, <2>4, RevokeStep
  <1>3. CASE LogoutEnds(d)
    <2>1. op[d].at = "logout" /\ op' = [op EXCEPT ![d] = Idle] /\ crashes' = crashes
          /\ ended' = ended \cup op[d].left /\ UNCHANGED <<token, revoked, excused>>
      BY <1>3 DEF LogoutEnds, At, Ends, Goes, account
    <2>2. \A e \in Devices : token[e] # 0 => token[e] \notin op[d].left
      BY <2>1 DEF IInv, GivenUp, Listed
    <2>3. Spared(d, Idle)
      BY <2>1, <2>2 DEF Spared
    <2> QED
      BY <1>0, <2>1, <2>3, IdleParts, RevokeStep
  <1> QED
    BY <1>1, <1>2, <1>3

(* A reset lists what it finds in use, and revokes it one by one. *)
LEMMA ResetStep ==
    ASSUME IInv, NEW d \in Devices,
           ListTokens(d) \/ (\E t \in Tokens : RevokeOne(d, t) \/ EndOne(d, t)) \/ Revoked(d)
    PROVE  IInv'
  <1>0. d \in Hands /\ crashes \in Nat /\ DOMAIN op[d] = Fields
    BY DEF Hands, IInv, Shaped
  <1>1. CASE ListTokens(d)
    <2> DEFINE p == [op[d] EXCEPT !.at = "revoke", !.todo = InUse \ ended]
    <2>1. op[d].at = "list" /\ op' = [op EXCEPT ![d] = p] /\ crashes' = crashes
          /\ excused' = excused \cup InUse /\ UNCHANGED <<token, revoked, ended>>
      BY <1>1 DEF ListTokens, At, Goes, account
    <2>2. op[d].left = {}
      BY <2>1 DEF IInv, OnlyListed, Listed
    <2>3. DOMAIN p = Fields /\ p.at = "revoke" /\ p.todo \cup p.left \subseteq excused'
      BY <1>0, <2>1, <2>2 DEF Fields
    <2>4. Spared(d, p)
      BY <2>1 DEF Spared
    <2> HIDE DEF p
    <2> QED
      BY <1>0, <2>1, <2>3, <2>4, RevokeStep
  <1>2. ASSUME NEW t \in Tokens, RevokeOne(d, t) PROVE IInv'
    <2> DEFINE p == [op[d] EXCEPT !.todo = op[d].todo \ {t}, !.left = op[d].left \cup {t}]
    <2>1. op[d].at = "revoke" /\ t \in op[d].todo /\ op' = [op EXCEPT ![d] = p] /\ crashes' = crashes
          /\ revoked' = revoked \cup {t} /\ UNCHANGED <<token, ended, excused>>
      BY <1>2 DEF RevokeOne, At, Goes, account
    <2>2. op[d].todo \cup op[d].left \subseteq excused
      BY <2>1 DEF IInv, Found, Listed
    <2>3. DOMAIN p = Fields /\ p.at = "revoke" /\ p.todo \cup p.left \subseteq excused'
      BY <1>0, <2>1, <2>2 DEF Fields
    <2>4. Spared(d, p)
      BY <2>1, <2>2 DEF Spared
    <2> HIDE DEF p
    <2> QED
      BY <1>0, <2>1, <2>3, <2>4, RevokeStep
  <1>3. ASSUME NEW t \in Tokens, EndOne(d, t) PROVE IInv'
    <2> DEFINE p == [op[d] EXCEPT !.left = op[d].left \ {t}]
    <2>1. op[d].at = "revoke" /\ t \in op[d].left /\ op' = [op EXCEPT ![d] = p] /\ crashes' = crashes
          /\ ended' = ended \cup {t} /\ UNCHANGED <<token, revoked, excused>>
      BY <1>3 DEF EndOne, At, Goes, account
    <2>2. op[d].todo \cup op[d].left \subseteq excused
      BY <2>1 DEF IInv, Found, Listed
    <2>3. DOMAIN p = Fields /\ p.at = "revoke" /\ p.todo \cup p.left \subseteq excused'
      BY <1>0, <2>1, <2>2 DEF Fields
    <2>4. Spared(d, p)
      BY <2>1, <2>2 DEF Spared
    <2> HIDE DEF p
    <2> QED
      BY <1>0, <2>1, <2>3, <2>4, RevokeStep
  <1>4. CASE Revoked(d)
    <2> DEFINE p == [op[d] EXCEPT !.at = "answer"]
    <2>1. op[d].at = "revoke" /\ op' = [op EXCEPT ![d] = p] /\ crashes' = crashes /\ Listed(d) = {}
          /\ UNCHANGED <<token, revoked, ended, excused>>
      BY <1>4 DEF Revoked, At, Moves, Goes, account, tokens, Listed
    <2>2. DOMAIN p = Fields /\ p.at = "answer" /\ p.todo \cup p.left = {}
      BY <2>1, MoveParts
    <2> QED
      BY <1>0, <2>1, <2>2, QuietStep
  <1> QED
    BY <1>1, <1>2, <1>3, <1>4

(* A step in which no handler moves: tokens may be ended, which excuses    *)
(* them, and setup tokens.                                                 *)
LEMMA RestStep ==
    ASSUME IInv, UNCHANGED <<op, crashes, token, revoked>>, excused \subseteq excused',
           ended' \ ended \subseteq excused'
    PROVE  IInv'
  <1>1. Shaped' /\ OnlyListed' /\ OwnTokens' /\ GivenUp'
    BY DEF IInv, Shaped, OnlyListed, OwnTokens, GivenUp, Listed
  <1>2. Found' /\ Kept'
    BY DEF IInv, Found, Kept, Listed, Usable
  <1> QED
    BY <1>1, <1>2 DEF IInv

(* Permissions, and the office that changes them. *)
LEMMA PermissionStep ==
    ASSUME IInv,
           \/ \E d \in Devices : Resolve(d) \/ LoadFromDb(d) \/ CacheSet(d)
           \/ (\E r \in Roles : ChangeRole(r)) \/ InvalidateUser
    PROVE  IInv'
  <1>0. crashes \in Nat /\ "office" \in Hands /\ Devices \subseteq Hands
        /\ \A d \in Hands : DOMAIN op[d] = Fields
    BY DEF Hands, IInv, Shaped
  <1>1. ASSUME NEW d \in Devices, Resolve(d) PROVE IInv'
    <2> DEFINE p == [Idle EXCEPT !.at = "load"]
    <2>1. op[d].at = "idle" /\ op' = [op EXCEPT ![d] = p] /\ crashes' = crashes /\ UNCHANGED tokens
      BY <1>1 DEF Resolve, Resting, At, Goes, account
    <2>2. DOMAIN p = Fields /\ p.at = "load" /\ p.todo \cup p.left = {}
      BY DEF Idle, Fields
    <2> QED
      BY <1>0, <2>1, <2>2, QuietStep DEF tokens
  <1>2. ASSUME NEW d \in Devices, LoadFromDb(d) PROVE IInv'
    <2> DEFINE p == [op[d] EXCEPT !.at = "store", !.aim = role]
    <2>1. op[d].at = "load" /\ op' = [op EXCEPT ![d] = p] /\ crashes' = crashes /\ UNCHANGED tokens
      BY <1>2 DEF LoadFromDb, At, Goes, account
    <2>2. op[d].todo \cup op[d].left = {}
      BY <2>1 DEF IInv, OnlyListed, Listed
    <2>3. DOMAIN p = Fields /\ p.at = "store" /\ p.todo \cup p.left = {}
      BY <1>0, <2>2 DEF Fields
    <2> QED
      BY <1>0, <2>1, <2>3, QuietStep DEF tokens
  <1>3. ASSUME NEW d \in Devices, CacheSet(d) PROVE IInv'
    BY <1>0, <1>3, QuietEnd DEF CacheSet, At, account
  <1>4. ASSUME NEW r \in Roles, ChangeRole(r) PROVE IInv'
    <2>1. /\ op["office"].at = "idle"
          /\ op' = [op EXCEPT !["office"] = [op["office"] EXCEPT !.at = "invalidate"]]
          /\ crashes' = crashes /\ UNCHANGED tokens
      BY <1>4 DEF ChangeRole, At, Moves, Goes, account
    <2>2. \A d \in Devices : op'[d] = op[d]
      BY <2>1, OfficeApart
    <2>3. DOMAIN [op["office"] EXCEPT !.at = "invalidate"] = Fields
      BY <1>0
    <2>4. Shaped'
      BY <2>1, <2>3 DEF IInv, Shaped, tokens
    <2>5. OnlyListed' /\ OwnTokens' /\ GivenUp' /\ Found' /\ Kept'
      BY <2>1, <2>2 DEF IInv, OnlyListed, OwnTokens, GivenUp, Found, Kept, Listed, Usable, tokens
    <2> QED
      BY <2>4, <2>5 DEF IInv
  <1>5. CASE InvalidateUser
    BY <1>0, <1>5, QuietEnd DEF InvalidateUser, At, account
  <1> QED
    BY <1>1, <1>2, <1>3, <1>4, <1>5

(* A handler that dies takes its list along; what it has revoked does not  *)
(* count any more.                                                         *)
LEMMA CrashStep ==
    ASSUME IInv, NEW d \in Hands, Crash(d)
    PROVE  IInv'
  <1>1. /\ op' = [op EXCEPT ![d] = Idle] /\ crashes' = crashes + 1
        /\ UNCHANGED <<token, excused>> /\ crashes \in Nat
    BY DEF Crash, Ends, Goes, IInv, Shaped
  <1>2. \A e \in Hands : op'[e] = IF e = d THEN Idle ELSE op[e]
    BY <1>1 DEF IInv, Shaped
  <1>3. Shaped'
    BY <1>1, <1>2, IdleParts DEF IInv, Shaped
  <1>4. \A e \in Devices :
           (op'[e].at = "idle" /\ Listed(e)' = {}) \/ (op'[e] = op[e] /\ Listed(e)' = Listed(e))
    <2> SUFFICES ASSUME NEW e \in Devices
                 PROVE  (op'[e].at = "idle" /\ Listed(e)' = {}) \/ (op'[e] = op[e] /\ Listed(e)' = Listed(e))
      OBVIOUS
    <2>1. CASE e = d
      <3>1. op'[e] = Idle
        BY <1>2, <2>1
      <3>2. Listed(e)' = Idle.todo \cup Idle.left
        BY <3>1 DEF Listed
      <3>3. op'[e].at = "idle"
        BY <3>1 DEF Idle
      <3>4. Listed(e)' = {}
        BY <3>2, IdleParts
      <3> QED
        BY <3>3, <3>4
    <2>2. CASE e # d
      BY <1>2, <2>2 DEF Listed, Hands
    <2> QED
      BY <2>1, <2>2
  <1>5. OnlyListed' /\ OwnTokens' /\ GivenUp' /\ Found'
    BY <1>1, <1>4 DEF IInv, OnlyListed, OwnTokens, GivenUp, Found
  <1>6. Kept'
    BY <1>1 DEF Kept
  <1> QED
    BY <1>3, <1>5, <1>6 DEF IInv

(* Every step keeps the invariant. *)
LEMMA InvStep == IInv /\ [Next]_vars => IInv'
  <1> SUFFICES ASSUME IInv, [Next]_vars PROVE IInv'
    OBVIOUS
  <1>1. CASE UNCHANGED vars
    BY <1>1, RestStep DEF vars, account, tokens
  <1>2. ASSUME NEW d \in Devices, Request(d) \/ Handler(d) PROVE IInv'
    BY <1>2, CodeStep, SignInStep, RefreshStep, LogoutStep, ResetStep, PermissionStep DEF Request, Handler
  <1>3. ASSUME NEW d \in Devices, SetupExpires(d) PROVE IInv'
    BY <1>3, RestStep DEF SetupExpires, account
  <1>4. CASE (\E r \in Roles : ChangeRole(r)) \/ InvalidateUser
    BY <1>4, PermissionStep
  <1>5. ASSUME NEW s \in {"good", "barred"}, AccountBecomes(s) PROVE IInv'
    BY <1>5, RestStep DEF AccountBecomes, tokens
  <1>6. CASE DeleteUser
    BY <1>6, RestStep DEF DeleteUser
  <1>7. ASSUME NEW t \in Tokens, TokenExpires(t) PROVE IInv'
    BY <1>7, RestStep DEF TokenExpires, account
  <1>8. CASE Clock
    BY <1>8, RestStep DEF Clock, account, tokens
  <1>9. ASSUME NEW d \in Devices \cup {"office"}, Crash(d) PROVE IInv'
    BY <1>9, CrashStep DEF Hands
  <1> QED
    BY <1>1, <1>2, <1>3, <1>4, <1>5, <1>6, <1>7, <1>8, <1>9 DEF Next

-----------------------------------------------------------------------------
(* The inductive invariant: no two devices have the same token, a logout   *)
(* revokes what nobody holds, a reset what it found in use.                *)
THEOREM SessionInvariant == Spec => []IInv
  BY InvInit, InvStep, PTL DEF Spec

(* As long as no handler dies, no refresh, sign-in or logout of a device   *)
(* makes the token of another one unusable.                                *)
THEOREM SessionsStay == Spec => []SessionsKept
  <1>1. IInv => SessionsKept
    BY DEF IInv, Kept, SessionsKept, Resting, At
  <1> QED
    BY <1>1, SessionInvariant, PTL

-----------------------------------------------------------------------------
(* Sets of numbers.                                                        *)
Below(K, i) == {j \in K : j < i}

(* A finite set of n numbers has one with 0, one with 1, ... and one with  *)
(* n - 1 smaller ones: counting the smaller ones is one-to-one.            *)
LEMMA Nth ==
    ASSUME NEW K \in SUBSET Nat, IsFiniteSet(K), NEW n \in 1 .. Cardinality(K)
    PROVE  \E i \in K : Cardinality(Below(K, i)) = n - 1
  <1> DEFINE C == Cardinality(K)
             rank == [i \in K |-> Cardinality(Below(K, i)) + 1]
  <1>1. C \in Nat
    BY FS_CardinalityType
  <1>2. ASSUME NEW i \in K PROVE IsFiniteSet(Below(K, i)) /\ Cardinality(Below(K, i)) \in 0 .. C - 1
    <2>1. Below(K, i) \in SUBSET K /\ Below(K, i) # K
      BY DEF Below
    <2>2. IsFiniteSet(Below(K, i)) /\ Cardinality(Below(K, i)) <= C /\ C # Cardinality(Below(K, i))
      BY <2>1, FS_Subset
    <2>3. Cardinality(Below(K, i)) \in Nat
      BY <2>2, FS_CardinalityType
    <2> QED
      BY <1>1, <2>2, <2>3
  <1>3. ASSUME NEW i \in K, NEW j \in K, i < j
        PROVE  Cardinality(Below(K, i)) # Cardinality(Below(K, j))
    <2>0. i \in Nat /\ j \in Nat /\ ~(i < i) /\ \A k \in K : k < i => k < j
      BY <1>3
    <2>1. Below(K, i) \in SUBSET Below(K, j) /\ i \in Below(K, j) \ Below(K, i)
      BY <1>3, <2>0, Zenon DEF Below
    <2>2. Cardinality(Below(K, i)) = Cardinality(Below(K, j)) => Below(K, j) = Below(K, i)
      BY <1>2, <2>1, FS_Subset
    <2> QED
      BY <2>1, <2>2
  <1>4. rank \in [K -> 1 .. C]
    BY <1>1, <1>2
  <1>5. ASSUME NEW i \in K, NEW j \in K, rank[i] = rank[j] PROVE i = j
    <2>1. Cardinality(Below(K, i)) = Cardinality(Below(K, j))
      BY <1>1, <1>2, <1>5
    <2>2. i < j \/ j < i \/ i = j
      OBVIOUS
    <2> QED
      BY <1>3, <2>1, <2>2
  <1>6. rank \in Injection(K, 1 .. C)
    BY <1>4, <1>5 DEF Injection, IsInjective
  <1>7. IsFiniteSet(1 .. C) /\ Cardinality(1 .. C) = C
    BY <1>1, FS_Interval
  <1>8. rank \in Surjection(K, 1 .. C)
    <2> HIDE DEF rank
    <2> QED
      BY <1>6, <1>7, FS_Injection
  <1>9. PICK i \in K : rank[i] = n
    <2> HIDE DEF rank
    <2> QED
      BY <1>8 DEF Surjection
  <1> QED
    BY <1>1, <1>2, <1>9

(* A finite set of numbers that is not empty has a largest one.            *)
LEMMA Largest ==
    ASSUME NEW K \in SUBSET Nat, IsFiniteSet(K), K # {}
    PROVE  \E i \in K : \A j \in K : j <= i
  <1> DEFINE C == Cardinality(K)
  <1>1. C \in Nat \ {0}
    BY FS_CardinalityType, FS_EmptySet
  <1>2. PICK i \in K : Cardinality(Below(K, i)) = C - 1
    BY <1>1, Nth
  <1>3. Below(K, i) \in SUBSET K /\ i \notin Below(K, i)
    BY DEF Below
  <1>4. IsFiniteSet(Below(K, i))
    BY <1>3, FS_Subset
  <1>5. Cardinality(Below(K, i) \cup {i}) = C
    <2>1. Cardinality(Below(K, i) \cup {i}) = Cardinality(Below(K, i)) + 1
      BY <1>3, <1>4, FS_AddElement
    <2> QED
      BY <1>1, <1>2, <2>1
  <1>6. Below(K, i) \cup {i} = K
    <2>1. Below(K, i) \cup {i} \in SUBSET K
      BY <1>3
    <2> QED
      BY <1>5, <2>1, FS_Subset
  <1> QED
    BY <1>6 DEF Below

-----------------------------------------------------------------------------
(* Types, and how often a code is refused.  That the attempts of a code    *)
(* have a limit is not inductive: a handler that has found the limit not   *)
(* reached counts its attempt later.  The invariant counts those handlers  *)
(* with the attempts made, and no two codes have the same name.            *)
Row == [code : Codes, age : 0 .. Lockout, verified : BOOLEAN, sent : BOOLEAN,
        attempts : 0 .. MAX_ATTEMPTS + Cardinality(Devices) - 1]
Handling == [at : Places, code : Codes \cup {0}, aim : {"none", "signIn", "reset"} \cup Roles,
             barred : BOOLEAN, needs : BOOLEAN, todo : SUBSET Tokens, left : SUBSET Tokens]

AccountTyped ==
    /\ scenario \in Scenario /\ crashes \in Nat
    /\ standing \in {"good", "barred", "deleted"} /\ password \in BOOLEAN
CodesTyped == otps \in Seq(Row)
TokensTyped ==
    /\ token \in [Devices -> Tokens \cup {0}] /\ setup \subseteq Devices
    /\ revoked \subseteq Tokens /\ ended \subseteq Tokens /\ excused \subseteq Tokens
CacheTyped == role \in Roles /\ cache \in [role : Roles \cup {"none"}, age : Nat]
HandlersTyped == op \in [Hands -> Handling]

(* What is about to be cached is a role. *)
Stores == \A d \in Hands : op[d].at = "store" => op[d].aim \in Roles

(* No two codes have the same name. *)
OwnCodes == \A i, j \in DOMAIN otps : i # j => otps[i].code # otps[j].code

(* The attempts at a code, those under way included, stay in the limit and *)
(* one for each of the other devices.                                      *)
Trying(c) == {d \in Devices : op[d].at = "wrong" /\ op[d].code = c}
Tries ==
    \A c \in Codes : \A i \in DOMAIN otps : otps[i].code = c =>
        otps[i].attempts + Cardinality(Trying(c)) <= MAX_ATTEMPTS + Cardinality(Devices) - 1

CodesFit == CodesTyped /\ OwnCodes /\ Tries
HandlersFit == HandlersTyped /\ Stores
TInv == AccountTyped /\ CodesFit /\ TokensTyped /\ CacheTyped /\ HandlersFit

(* The types are those of the type invariant. *)
LEMMA TypesAreTypes == AccountTyped /\ CodesTyped /\ TokensTyped /\ CacheTyped /\ HandlersTyped <=> TypeOK
  BY DEF AccountTyped, CodesTyped, TokensTyped, CacheTyped, HandlersTyped, TypeOK, Row, Handling, Hands

(* The number of devices is a number, and so is that of those that try.    *)
LEMMA TryingCount ==
    /\ Cardinality(Devices) \in Nat
    /\ \A c : /\ IsFiniteSet(Trying(c)) /\ Cardinality(Trying(c)) \in Nat
              /\ Cardinality(Trying(c)) <= Cardinality(Devices)
  <1>1. Cardinality(Devices) \in Nat
    BY SomeUsers, FS_CardinalityType
  <1>2. ASSUME NEW c
        PROVE  /\ IsFiniteSet(Trying(c)) /\ Cardinality(Trying(c)) \in Nat
               /\ Cardinality(Trying(c)) <= Cardinality(Devices)
    <2>1. Trying(c) \in SUBSET Devices
      BY DEF Trying
    <2> QED
      BY <2>1, SomeUsers, FS_Subset, FS_CardinalityType
  <1> QED
    BY <1>1, <1>2

(* Where there is a device, there is one attempt at least. *)
LEMMA SomeDevice == ASSUME NEW d \in Devices PROVE Cardinality(Devices) \in Nat \ {0}
  BY SomeUsers, FS_EmptySet, FS_CardinalityType

(* The invariant holds initially. *)
LEMMA TypeInit == Init => TInv
  <1> SUFFICES ASSUME Init PROVE TInv
    OBVIOUS
  <1>1. scenario \in Scenario
    BY SomeScenario DEF Init
  <1>2. AccountTyped
    BY <1>1 DEF Init, AccountTyped
  <1>3. CodesFit
    BY DEF Init, CodesFit, CodesTyped, OwnCodes, Tries
  <1>4. TokensTyped /\ CacheTyped
    BY DEF Init, TokensTyped, CacheTyped, NoEntry, Roles
  <1>5. Idle \in Handling
    BY DEF Idle, Handling, Places
  <1>6. HandlersFit
    BY <1>5 DEF Init, HandlersFit, HandlersTyped, Stores, Hands, Idle
  <1> QED
    BY <1>2, <1>3, <1>4, <1>6 DEF TInv

(* A handler that does not enter a wrong code goes elsewhere: nobody else  *)
(* moves, and nobody tries a code who did not before.                      *)
LEMMA HandlerMoves ==
    ASSUME HandlersFit, NEW d \in Hands, NEW p \in Handling, Goes(d, p),
           p.at = "store" => p.aim \in Roles
    PROVE  /\ HandlersFit'
           /\ \A e \in Hands : op'[e] = IF e = d THEN p ELSE op[e]
           /\ p.at # "wrong" => \A c : Trying(c)' \subseteq Trying(c)
  <1>1. op' = [op EXCEPT ![d] = p] /\ op \in [Hands -> Handling]
    BY DEF Goes, HandlersFit, HandlersTyped
  <1>2. \A e \in Hands : op'[e] = IF e = d THEN p ELSE op[e]
    BY <1>1
  <1>3. HandlersTyped'
    BY <1>1 DEF HandlersTyped
  <1>4. Stores'
    BY <1>2 DEF HandlersFit, Stores
  <1>5. p.at # "wrong" => \A c : Trying(c)' \subseteq Trying(c)
    BY <1>2 DEF Trying, Hands
  <1> QED
    BY <1>2, <1>3, <1>4, <1>5 DEF HandlersFit

(* Fewer devices that try are not more in number. *)
LEMMA TryingShrinks ==
    ASSUME NEW c, Trying(c)' \subseteq Trying(c)
    PROVE  Cardinality(Trying(c)') \in Nat /\ Cardinality(Trying(c)') <= Cardinality(Trying(c))
  <1>1. Trying(c)' \in SUBSET Trying(c) /\ IsFiniteSet(Trying(c))
    BY TryingCount
  <1> QED
    BY <1>1, FS_Subset, FS_CardinalityType

(* Attempts are counted in natural numbers. *)
LEMMA AttemptsNat == ASSUME CodesTyped, NEW i \in DOMAIN otps PROVE otps[i].attempts \in Nat
  <1>1. otps[i] \in Row
    BY DEF CodesTyped
  <1> QED
    BY <1>1, TryingCount, SomeAttempts DEF Row

(* Codes that stay as they are, tried by nobody else. *)
LEMMA CodesStay ==
    ASSUME CodesFit, UNCHANGED otps, \A c : Trying(c)' \subseteq Trying(c)
    PROVE  CodesFit'
  <1>1. CodesTyped' /\ OwnCodes'
    BY DEF CodesFit, CodesTyped, OwnCodes
  <1>2. ASSUME NEW c \in Codes, NEW i \in DOMAIN otps, otps[i].code = c
        PROVE  otps[i].attempts + Cardinality(Trying(c)') <= MAX_ATTEMPTS + Cardinality(Devices) - 1
    <2>1. otps[i].attempts + Cardinality(Trying(c)) <= MAX_ATTEMPTS + Cardinality(Devices) - 1
      BY <1>2 DEF CodesFit, Tries
    <2>2. Cardinality(Trying(c)) \in Nat /\ Cardinality(Devices) \in Nat
      BY TryingCount
    <2>3. Cardinality(Trying(c)') \in Nat /\ Cardinality(Trying(c)') <= Cardinality(Trying(c))
      BY TryingShrinks
    <2>4. otps[i].attempts \in Nat
      BY AttemptsNat DEF CodesFit
    <2> QED
      BY <2>1, <2>2, <2>3, <2>4, SomeAttempts
  <1>3. Tries'
    BY <1>2 DEF Tries
  <1> QED
    BY <1>1, <1>3 DEF CodesFit

(* The newest of the codes that count. *)
LEMMA LatestFits ==
    ASSUME CodesTyped, Answerable # {}
    PROVE  Latest \in DOMAIN otps /\ otps[Latest] \in Row
  <1>1. DOMAIN otps = 1 .. Len(otps) /\ Len(otps) \in Nat
    BY DEF CodesTyped
  <1>2. Answerable \in SUBSET DOMAIN otps
    BY DEF Answerable
  <1>3. IsFiniteSet(Answerable) /\ Answerable \in SUBSET Nat
    <2>1. IsFiniteSet(1 .. Len(otps)) /\ 1 .. Len(otps) \in SUBSET Nat
      BY <1>1, FS_Interval
    <2> QED
      BY <1>1, <1>2, <2>1, FS_Subset
  <1>4. \E i \in Answerable : \A j \in Answerable : j <= i
    BY <1>3, Largest
  <1>5. Latest \in Answerable
    BY <1>4 DEF Latest
  <1> QED
    BY <1>2, <1>5 DEF CodesTyped

(* The place of an idle handler, and of one that only moves on. *)
LEMMA IdleFits == Idle \in Handling /\ Idle.at = "idle"
  BY DEF Idle, Handling, Places

(* A handler that moves on to a place stands in the record of that place.  *)
LEMMA MoveFits ==
    ASSUME HandlersFit, NEW d \in Hands, NEW a \in Places
    PROVE  LET p == [op[d] EXCEPT !.at = a] IN p \in Handling /\ p.at = a
  <1>1. op[d] \in Handling
    BY DEF HandlersFit, HandlersTyped
  <1> QED
    BY <1>1 DEF Handling

(* A new code has a name that neither a code nor a handler has. *)
LEMMA CreateFits ==
    ASSUME TInv, NEW d \in Devices, NEW sent \in BOOLEAN, CreateOtp(d, sent)
    PROVE  TInv'
  <1>1. /\ HandlersFit' /\ \A c : Trying(c)' \subseteq Trying(c)
    BY IdleFits, HandlerMoves DEF TInv, CreateOtp, Ends, Hands, Idle
  <1>2. AccountTyped' /\ TokensTyped' /\ CacheTyped'
    BY DEF TInv, CreateOtp, AccountTyped, TokensTyped, CacheTyped, tokens, permissions
  <1>3. PICK c \in FreeCodes :
           otps' = Append(otps, [code |-> c, age |-> 0, attempts |-> 0, verified |-> FALSE, sent |-> sent])
    BY DEF CreateOtp
  <1> DEFINE r == [code |-> c, age |-> 0, attempts |-> 0, verified |-> FALSE, sent |-> sent]
             n == Len(otps)
             limit == MAX_ATTEMPTS + Cardinality(Devices) - 1
  <1>4. c \in Codes /\ \A i \in DOMAIN otps : otps[i].code # c
    BY DEF FreeCodes
  <1>5. limit \in Nat
    BY SomeDevice, SomeAttempts
  <1>6. r \in Row
    BY <1>4, <1>5, Durations DEF Row
  <1>7. otps \in Seq(Row) /\ n \in Nat /\ DOMAIN otps = 1 .. n
    BY DEF TInv, CodesFit, CodesTyped
  <1>8. /\ otps' \in Seq(Row) /\ DOMAIN otps' = 1 .. n + 1
        /\ \A i \in 1 .. n : otps'[i] = otps[i]
        /\ otps'[n + 1] = r
    <2> HIDE DEF r
    <2> QED
      BY <1>3, <1>6, <1>7 DEF r
  <1>9. OwnCodes'
    <2> SUFFICES ASSUME NEW i \in 1 .. n + 1, NEW j \in 1 .. n + 1, i # j
                 PROVE  otps'[i].code # otps'[j].code
      BY <1>8 DEF OwnCodes
    <2>1. CASE i \in 1 .. n /\ j \in 1 .. n
      BY <1>7, <1>8, <2>1 DEF TInv, CodesFit, OwnCodes
    <2>2. CASE i = n + 1 /\ j \in 1 .. n
      BY <1>4, <1>7, <1>8, <2>2
    <2>3. CASE j = n + 1 /\ i \in 1 .. n
      BY <1>4, <1>7, <1>8, <2>3
    <2> QED
      BY <1>7, <2>1, <2>2, <2>3
  <1>10. Trying(c) = {}
    BY DEF FreeCodes, CreateOtp, Trying
  <1>11. Tries'
    <2> SUFFICES ASSUME NEW k \in Codes, NEW i \in 1 .. n + 1, otps'[i].code = k
                 PROVE  otps'[i].attempts + Cardinality(Trying(k)') <= limit
      BY <1>8 DEF Tries
    <2>1. Cardinality(Trying(k)') \in Nat /\ Cardinality(Trying(k)') <= Cardinality(Trying(k))
      BY <1>1, TryingShrinks
    <2>2. Cardinality(Trying(k)) \in Nat
      BY TryingCount
    <2>3. CASE i \in 1 .. n
      <3>1. otps'[i] = otps[i]
        BY <1>8, <2>3
      <3>2. otps[i].attempts + Cardinality(Trying(k)) <= limit
        BY <1>7, <2>3, <3>1 DEF TInv, CodesFit, Tries
      <3>3. otps[i].attempts \in Nat
        BY <1>7, <2>3, AttemptsNat DEF CodesTyped
      <3> HIDE DEF limit
      <3> QED
        BY <1>5, <2>1, <2>2, <3>1, <3>2, <3>3
    <2>4. CASE i = n + 1
      <3>1. otps'[i].attempts = 0 /\ k = c
        BY <1>8, <2>4
      <3>2. Cardinality(Trying(k)) = 0
        BY <1>10, <3>1, FS_EmptySet
      <3> HIDE DEF limit
      <3> QED
        BY <1>5, <2>1, <3>1, <3>2
    <2> QED
      BY <1>7, <2>3, <2>4
  <1> QED
    BY <1>1, <1>2, <1>8, <1>9, <1>11 DEF TInv, CodesFit, CodesTyped

(* A device that enters a wrong code begins an attempt: with the limit not *)
(* reached, there is room for one of each device.                          *)
LEMMA VerifyFits ==
    ASSUME TInv, NEW d \in Devices, NEW code, NEW aim \in {"signIn", "reset"}, VerifyOtp(d, code, aim)
    PROVE  TInv'
  <1> DEFINE c == otps[Latest].code
             a == IF code = c THEN "right" ELSE "wrong"
             b == aim = "reset" /\ standing # "good"
             p == [Idle EXCEPT !.at = a, !.code = c, !.aim = aim, !.barred = b]
             limit == MAX_ATTEMPTS + Cardinality(Devices) - 1
  <1>1. /\ Goes(d, p) /\ UNCHANGED <<account, otps, tokens, permissions>>
        /\ Answerable # {} /\ AttemptsLeft /\ d \in Hands
    BY DEF VerifyOtp, Hands
  <1>2. Latest \in DOMAIN otps /\ otps[Latest] \in Row
    BY <1>1, LatestFits DEF TInv, CodesFit
  <1>3. c \in Codes /\ otps[Latest].attempts \in Nat
    BY <1>2, AttemptsNat DEF Row, TInv, CodesFit
  <1>4. p \in Handling /\ p.at = a /\ p.code = c
    BY <1>3 DEF Idle, Handling, Places
  <1>5. HandlersFit' /\ \A e \in Hands : op'[e] = IF e = d THEN p ELSE op[e]
    <2> HIDE DEF p
    <2> QED
      BY <1>1, <1>4, HandlerMoves DEF TInv
  <1>6. AccountTyped' /\ TokensTyped' /\ CacheTyped' /\ CodesTyped' /\ OwnCodes'
    BY <1>1 DEF TInv, CodesFit, AccountTyped, TokensTyped, CacheTyped, CodesTyped, OwnCodes, account,
       tokens, permissions
  <1>7. ASSUME NEW k \in Codes, NEW i \in DOMAIN otps, otps[i].code = k
        PROVE  otps[i].attempts + Cardinality(Trying(k)') <= limit
    <2>1. otps[i].attempts + Cardinality(Trying(k)) <= limit /\ otps[i].attempts \in Nat
      BY <1>7, AttemptsNat DEF TInv, CodesFit, Tries
    <2>2. Cardinality(Trying(k)) \in Nat /\ Cardinality(Devices) \in Nat
      BY TryingCount
    <2>3. CASE k = c
      <3>1. i = Latest
        BY <1>2, <1>7, <2>3 DEF TInv, CodesFit, OwnCodes
      <3>2. otps[i].attempts <= MAX_ATTEMPTS - 1
        BY <1>1, <2>1, <3>1, SomeAttempts DEF AttemptsLeft
      <3>3. Trying(k)' \in SUBSET Devices
        BY DEF Trying
      <3>4. Cardinality(Trying(k)') <= Cardinality(Devices) /\ Cardinality(Trying(k)') \in Nat
        BY <3>3, SomeUsers, FS_Subset, FS_CardinalityType
      <3> QED
        BY <2>1, <2>2, <3>2, <3>4, SomeAttempts
    <2>4. CASE k # c
      <3>1. Trying(k)' \subseteq Trying(k)
        BY <1>4, <1>5, <2>4 DEF Trying, Hands
      <3>2. Cardinality(Trying(k)') \in Nat /\ Cardinality(Trying(k)') <= Cardinality(Trying(k))
        BY <3>1, TryingShrinks
      <3> QED
        BY <2>1, <2>2, <3>2, SomeAttempts
    <2> QED
      BY <2>3, <2>4
  <1>8. Tries'
    BY <1>1, <1>7 DEF Tries
  <1> QED
    BY <1>5, <1>6, <1>8 DEF TInv, CodesFit

(* A handler that counts its attempt is one fewer that tries. *)
LEMMA WrongFits ==
    ASSUME TInv, NEW d \in Devices, WrongCode(d)
    PROVE  TInv'
  <1> DEFINE limit == MAX_ATTEMPTS + Cardinality(Devices) - 1
  <1>1. PICK c : c = op[d].code
    OBVIOUS
  <1>2. /\ otps' = [i \in DOMAIN otps |->
                       IF otps[i].code = c THEN [otps[i] EXCEPT !.attempts = @ + 1] ELSE otps[i]]
        /\ Goes(d, Idle) /\ op[d].at = "wrong" /\ d \in Hands
        /\ UNCHANGED <<account, tokens, permissions>>
    BY <1>1 DEF WrongCode, Ends, At, Hands
  <1>3. /\ HandlersFit' /\ \A e \in Hands : op'[e] = IF e = d THEN Idle ELSE op[e]
        /\ \A k : Trying(k)' \subseteq Trying(k)
    <2>1. Idle.at # "store" /\ Idle.at # "wrong"
      BY IdleFits
    <2> QED
      BY <1>2, <2>1, IdleFits, HandlerMoves DEF TInv
  <1>4. AccountTyped' /\ TokensTyped' /\ CacheTyped'
    BY <1>2 DEF TInv, AccountTyped, TokensTyped, CacheTyped, account, tokens, permissions
  <1>5. otps \in Seq(Row) /\ DOMAIN otps = 1 .. Len(otps) /\ Len(otps) \in Nat /\ DOMAIN otps' = DOMAIN otps
    BY <1>2 DEF TInv, CodesFit, CodesTyped
  <1>6. d \in Trying(c) /\ Trying(c)' = Trying(c) \ {d}
    <2>1. d \in Trying(c)
      BY <1>1, <1>2 DEF Trying
    <2>2. Idle.at # "wrong"
      BY IdleFits
    <2>3. \A e \in Devices : e # d => op'[e] = op[e]
      BY <1>3 DEF Hands
    <2>4. op'[d].at # "wrong"
      BY <1>2, <1>3, <2>2
    <2> QED
      BY <2>1, <2>3, <2>4 DEF Trying
  <1>7. /\ Cardinality(Trying(c)) \in Nat /\ Cardinality(Devices) \in Nat
        /\ Cardinality(Trying(c)') = Cardinality(Trying(c)) - 1 /\ Cardinality(Trying(c)') \in Nat
    <2>1. IsFiniteSet(Trying(c)) /\ Cardinality(Trying(c)) \in Nat /\ Cardinality(Devices) \in Nat
      BY TryingCount
    <2>2. Cardinality(Trying(c) \ {d}) = Cardinality(Trying(c)) - 1
      BY <1>6, <2>1, FS_RemoveElement
    <2>3. Cardinality(Trying(c)') \in Nat
      BY <1>3, TryingShrinks
    <2> QED
      BY <1>6, <2>1, <2>2, <2>3
  <1>8. ASSUME NEW i \in DOMAIN otps, NEW k \in Codes, k = otps[i].code
        PROVE  /\ otps'[i] \in Row /\ otps'[i].code = k
               /\ otps'[i].attempts + Cardinality(Trying(k)') <= limit
    <2>1. /\ otps[i] \in Row /\ otps[i].attempts \in Nat
          /\ otps[i].attempts + Cardinality(Trying(k)) <= limit
      BY <1>5, <1>8, AttemptsNat DEF TInv, CodesFit, CodesTyped, Tries
    <2>2. CASE k = c
      <3> DEFINE r == otps[i]
                 q == [r EXCEPT !.attempts = @ + 1]
      <3>1. otps'[i] = q
        BY <1>2, <1>8, <2>2
      <3>2. r.attempts + 1 + Cardinality(Trying(k)') <= limit /\ r.attempts + 1 \in 0 .. limit
        BY <1>7, <2>1, <2>2, SomeAttempts
      <3>3. q \in Row /\ q.code = r.code /\ q.attempts = r.attempts + 1
        <4>1. r \in Row
          BY <2>1
        <4> HIDE DEF r
        <4> QED
          BY <3>2, <4>1 DEF Row
      <3> HIDE DEF q
      <3> QED
        BY <1>8, <3>1, <3>2, <3>3
    <2>3. CASE k # c
      <3>1. otps'[i] = otps[i]
        BY <1>2, <1>8, <2>3
      <3>2. Cardinality(Trying(k)') \in Nat /\ Cardinality(Trying(k)') <= Cardinality(Trying(k))
        BY <1>3, TryingShrinks
      <3>3. Cardinality(Trying(k)) \in Nat
        BY TryingCount
      <3> QED
        BY <1>7, <1>8, <2>1, <3>1, <3>2, <3>3, SomeAttempts
    <2> QED
      BY <2>2, <2>3
  <1>9. \A i \in DOMAIN otps : otps[i].code \in Codes /\ otps'[i] \in Row /\ otps'[i].code = otps[i].code
    <2>0. \A i \in DOMAIN otps : otps[i] \in Row
      BY <1>5
    <2>1. \A i \in DOMAIN otps : otps[i].code \in Codes
      BY <2>0 DEF Row
    <2> QED
      BY <1>8, <2>1
  <1>10. CodesTyped'
    <2> DEFINE s == otps'
    <2>1. s = [i \in 1 .. Len(otps) |-> s[i]]
      BY <1>2, <1>5
    <2>2. \A i \in 1 .. Len(otps) : s[i] \in Row
      BY <1>5, <1>9
    <2>3. s \in Seq(Row)
      BY <1>5, <2>1, <2>2
    <2> QED
      BY <2>3 DEF CodesTyped
  <1>11. OwnCodes'
    BY <1>5, <1>9 DEF TInv, CodesFit, OwnCodes
  <1>12. Tries'
    BY <1>5, <1>8, <1>9 DEF Tries
  <1> QED
    BY <1>3, <1>4, <1>10, <1>11, <1>12 DEF TInv, CodesFit

(* A code that was right counts as verified, and as many attempts as before. *)
LEMMA RightFits ==
    ASSUME TInv, NEW d \in Devices, RightCode(d)
    PROVE  TInv'
  <1> DEFINE p == [op[d] EXCEPT !.at = "gate", !.code = 0]
  <1>1. PICK c : c = op[d].code
    OBVIOUS
  <1>2. /\ otps' = [i \in DOMAIN otps |->
                       IF otps[i].code = c THEN [otps[i] EXCEPT !.verified = TRUE] ELSE otps[i]]
        /\ Goes(d, p) /\ d \in Hands
        /\ UNCHANGED <<account, tokens, permissions>>
    BY <1>1 DEF RightCode, Hands
  <1>3. HandlersFit' /\ \A k : Trying(k)' \subseteq Trying(k)
    <2>1. op[d] \in Handling
      BY <1>2 DEF TInv, HandlersFit, HandlersTyped
    <2>2. p \in Handling /\ p.at = "gate"
      BY <2>1 DEF Handling, Places
    <2> HIDE DEF p
    <2> QED
      BY <1>2, <2>2, HandlerMoves DEF TInv
  <1>4. AccountTyped' /\ TokensTyped' /\ CacheTyped'
    BY <1>2 DEF TInv, AccountTyped, TokensTyped, CacheTyped, account, tokens, permissions
  <1>5. otps \in Seq(Row) /\ DOMAIN otps = 1 .. Len(otps) /\ Len(otps) \in Nat /\ DOMAIN otps' = DOMAIN otps
    BY <1>2 DEF TInv, CodesFit, CodesTyped
  <1>6. ASSUME NEW i \in DOMAIN otps
        PROVE  /\ otps'[i] \in Row /\ otps'[i].code = otps[i].code /\ otps[i].code \in Codes
               /\ otps'[i].attempts = otps[i].attempts
    <2> DEFINE r == otps[i]
               q == [r EXCEPT !.verified = TRUE]
    <2>1. r \in Row
      BY <1>5
    <2>2. otps'[i] = q \/ otps'[i] = r
      BY <1>2
    <2>3. q \in Row /\ q.code = r.code /\ q.attempts = r.attempts /\ r.code \in Codes
      <3> HIDE DEF r
      <3> QED
        BY <2>1 DEF Row
    <2> HIDE DEF q
    <2> QED
      BY <2>1, <2>2, <2>3
  <1>7. CodesTyped'
    <2> DEFINE s == otps'
    <2>1. s = [i \in 1 .. Len(otps) |-> s[i]]
      BY <1>2, <1>5
    <2>2. \A i \in 1 .. Len(otps) : s[i] \in Row
      BY <1>5, <1>6
    <2>3. s \in Seq(Row)
      BY <1>5, <2>1, <2>2
    <2> QED
      BY <2>3 DEF CodesTyped
  <1>8. OwnCodes'
    BY <1>5, <1>6 DEF TInv, CodesFit, OwnCodes
  <1>9. ASSUME NEW k \in Codes, NEW i \in DOMAIN otps, otps'[i].code = k
        PROVE  otps'[i].attempts + Cardinality(Trying(k)') <= MAX_ATTEMPTS + Cardinality(Devices) - 1
    <2>1. otps[i].attempts + Cardinality(Trying(k)) <= MAX_ATTEMPTS + Cardinality(Devices) - 1
      BY <1>6, <1>9 DEF TInv, CodesFit, Tries
    <2>2. otps'[i].attempts = otps[i].attempts /\ otps[i].attempts \in Nat
      BY <1>6, AttemptsNat DEF TInv, CodesFit
    <2>3. Cardinality(Trying(k)') \in Nat /\ Cardinality(Trying(k)') <= Cardinality(Trying(k))
      BY <1>3, TryingShrinks
    <2>4. Cardinality(Trying(k)) \in Nat /\ Cardinality(Devices) \in Nat
      BY TryingCount
    <2> QED
      BY <2>1, <2>2, <2>3, <2>4, SomeAttempts
  <1>10. Tries'
    BY <1>5, <1>9 DEF Tries
  <1> QED
    BY <1>3, <1>4, <1>7, <1>8, <1>10 DEF TInv, CodesFit

(* The clock makes codes older and forgets some: the others keep their     *)
(* order, none comes twice.                                                *)
LEMMA AgesKeep ==
    ASSUME CodesTyped
    PROVE  /\ Ages \in Seq(Row)
           /\ \E g \in [DOMAIN Ages -> DOMAIN otps] :
                  \A m, n \in DOMAIN Ages :
                      /\ Ages[n].code = otps[g[n]].code /\ Ages[n].attempts = otps[g[n]].attempts
                      /\ m # n => g[m] # g[n]
  <1> DEFINE keeps == {i \in DOMAIN otps : Readable(i)}
             nth(n) == CHOOSE i \in keeps : Cardinality({j \in keeps : j < i}) = n - 1
             N == Cardinality(keeps)
  <1>1. Len(otps) \in Nat /\ DOMAIN otps = 1 .. Len(otps) /\ \A i \in DOMAIN otps : otps[i] \in Row
    BY DEF CodesTyped
  <1>2. IsFiniteSet(keeps) /\ keeps \in SUBSET Nat
    <2>1. IsFiniteSet(1 .. Len(otps)) /\ keeps \in SUBSET (1 .. Len(otps))
      BY <1>1, FS_Interval
    <2> QED
      BY <1>1, <2>1, FS_Subset
  <1>3. N \in Nat
    BY <1>2, FS_CardinalityType
  <1>4. Ages = [n \in 1 .. N |-> Older(otps[nth(n)])]
    BY DEF Ages
  <1>5. ASSUME NEW n \in 1 .. N
        PROVE  nth(n) \in keeps /\ Cardinality({j \in keeps : j < nth(n)}) = n - 1
    <2> HIDE DEF keeps
    <2>1. \E i \in keeps : Cardinality({j \in keeps : j < i}) = n - 1
      BY <1>2, Nth DEF Below
    <2> QED
      BY <2>1
  <1> DEFINE g == [n \in 1 .. N |-> nth(n)]
  <1>6. keeps \subseteq DOMAIN otps
    OBVIOUS
  <1>7. g \in [1 .. N -> DOMAIN otps]
    <2> HIDE DEF keeps, nth, N
    <2> QED
      BY <1>5, <1>6
  <1>8. ASSUME NEW m \in 1 .. N, NEW n \in 1 .. N, g[m] = g[n] PROVE m = n
    <2> HIDE DEF keeps, N
    <2>1. Cardinality({j \in keeps : j < nth(m)}) = m - 1 /\ Cardinality({j \in keeps : j < nth(n)}) = n - 1
      BY <1>5
    <2>2. nth(m) = nth(n)
      BY <1>8
    <2>3. m - 1 = n - 1
      BY <2>1, <2>2
    <2> QED
      BY <1>3, <2>3
  <1>9. ASSUME NEW n \in 1 .. N
        PROVE  /\ Ages[n] \in Row
               /\ Ages[n].code = otps[g[n]].code /\ Ages[n].attempts = otps[g[n]].attempts
    <2>1. PICK r \in Row : r = otps[g[n]]
      BY <1>1, <1>7
    <2>2. Ages[n] = Older(r)
      BY <1>4, <2>1
    <2>3. Older(r) \in Row /\ Older(r).code = r.code /\ Older(r).attempts = r.attempts
      <3> DEFINE q == [r EXCEPT !.age = IF r.age < Lockout THEN r.age + 1 ELSE r.age]
      <3>1. (IF r.age < Lockout THEN r.age + 1 ELSE r.age) \in 0 .. Lockout
        BY Durations DEF Row
      <3>2. q \in Row /\ q.code = r.code /\ q.attempts = r.attempts
        BY <3>1 DEF Row
      <3> QED
        BY <3>2 DEF Older
    <2> QED
      BY <2>1, <2>2, <2>3
  <1> HIDE DEF keeps, nth, N, g
  <1>10. DOMAIN Ages = 1 .. N
    BY <1>4
  <1>11. Ages \in Seq(Row)
    <2>1. Ages = [n \in 1 .. N |-> Ages[n]]
      BY <1>4
    <2> QED
      BY <1>3, <1>9, <2>1
  <1>12. \A m, n \in DOMAIN Ages :
            /\ Ages[n].code = otps[g[n]].code /\ Ages[n].attempts = otps[g[n]].attempts
            /\ m # n => g[m] # g[n]
    BY <1>8, <1>9, <1>10
  <1> QED
    BY <1>7, <1>10, <1>11, <1>12

(* The clock ticks. *)
LEMMA ClockFits == ASSUME TInv, Clock PROVE TInv'
  <1>1. otps' = Ages /\ UNCHANGED <<account, tokens, role, op>>
    BY DEF Clock
  <1>2. AccountTyped' /\ TokensTyped' /\ HandlersFit'
    BY <1>1 DEF TInv, AccountTyped, TokensTyped, HandlersFit, HandlersTyped, Stores, account, tokens
  <1>3. CacheTyped'
    <2>1. role' \in Roles /\ NoEntry \in [role : Roles \cup {"none"}, age : Nat]
      BY <1>1 DEF TInv, CacheTyped, NoEntry
    <2>2. [cache EXCEPT !.age = @ + 1] \in [role : Roles \cup {"none"}, age : Nat]
      BY DEF TInv, CacheTyped
    <2> QED
      BY <2>1, <2>2 DEF Clock, CacheTyped
  <1>4. /\ otps' \in Seq(Row)
        /\ \E g \in [DOMAIN otps' -> DOMAIN otps] :
               \A m, n \in DOMAIN otps' :
                   /\ otps'[n].code = otps[g[n]].code /\ otps'[n].attempts = otps[g[n]].attempts
                   /\ m # n => g[m] # g[n]
    BY <1>1, AgesKeep DEF TInv, CodesFit
  <1>5. PICK g \in [DOMAIN otps' -> DOMAIN otps] :
               \A m, n \in DOMAIN otps' :
                   /\ otps'[n].code = otps[g[n]].code /\ otps'[n].attempts = otps[g[n]].attempts
                   /\ m # n => g[m] # g[n]
    BY <1>4
  <1>6. OwnCodes'
    BY <1>5 DEF TInv, CodesFit, OwnCodes
  <1>7. Tries'
    <2>1. \A k : Trying(k)' = Trying(k)
      BY <1>1 DEF Trying
    <2> QED
      BY <1>5, <2>1 DEF TInv, CodesFit, Tries
  <1> QED
    BY <1>2, <1>3, <1>4, <1>6, <1>7 DEF TInv, CodesFit, CodesTyped

(* A step of a handler that leaves the codes alone, ...                    *)
LEMMA QuietFits ==
    ASSUME TInv, NEW d \in Hands, NEW p \in Handling, Goes(d, p), UNCHANGED otps,
           p.at # "wrong", p.at = "store" => p.aim \in Roles
    PROVE  CodesFit' /\ HandlersFit'
  BY HandlerMoves, CodesStay DEF TInv

(* ... of none.                                                            *)
LEMMA StillFits == ASSUME TInv, UNCHANGED <<otps, op>> PROVE CodesFit' /\ HandlersFit'
  <1>1. HandlersFit' /\ \A c : Trying(c)' \subseteq Trying(c)
    BY DEF TInv, HandlersFit, HandlersTyped, Stores, Trying
  <1> QED
    BY <1>1, CodesStay DEF TInv

(* A handler that ends, and one that goes to another place. *)
LEMMA EndFits ==
    ASSUME TInv, NEW d \in Hands, Ends(d), UNCHANGED otps
    PROVE  CodesFit' /\ HandlersFit'
  <1>1. Idle \in Handling /\ Idle.at # "wrong" /\ Idle.at # "store"
    BY IdleFits
  <1> QED
    BY <1>1, QuietFits DEF Ends

(* A handler goes on to a place of which nothing more is asked.            *)
LEMMA GoOnFits ==
    ASSUME TInv, NEW d \in Hands, NEW a \in Places \ {"wrong", "store"}, Moves(d, a), UNCHANGED otps
    PROVE  CodesFit' /\ HandlersFit'
  <1> DEFINE p == [op[d] EXCEPT !.at = a]
  <1>1. p \in Handling /\ p.at = a
    BY MoveFits DEF TInv
  <1>2. Goes(d, p)
    BY DEF Moves
  <1> HIDE DEF p
  <1> QED
    BY <1>1, <1>2, QuietFits

(* A new token is a token. *)
LEMMA IssueFits ==
    ASSUME TInv, NEW d \in Devices, Issue(d), UNCHANGED setup \/ setup' = setup \cup {d}
    PROVE  TokensTyped'
  <1>1. PICK t \in Tokens :
           /\ token' = [token EXCEPT ![d] = t]
           /\ revoked' = revoked \ {t} /\ ended' = ended \ {t} /\ excused' = excused \ {t}
    BY DEF Issue, FreeTokens
  <1> QED
    BY <1>1 DEF TInv, TokensTyped

(* Tokens in use are tokens. *)
LEMMA InUseFits == ASSUME TInv PROVE InUse \subseteq Tokens
  <1>1. ASSUME NEW d \in Devices
        PROVE  token[d] \in Tokens \cup {0} /\ op[d].todo \cup op[d].left \subseteq Tokens
    <2>1. op[d] \in Handling
      BY DEF TInv, HandlersFit, HandlersTyped, Hands
    <2>2. op[d].todo \in SUBSET Tokens /\ op[d].left \in SUBSET Tokens
      BY <2>1 DEF Handling
    <2> QED
      BY <2>2 DEF TInv, TokensTyped
  <1> QED
    BY <1>1 DEF InUse

(* A request that begins, and a code that is answered. *)
LEMMA RequestFits ==
    ASSUME TInv, NEW d \in Devices, Request(d)
    PROVE  TInv'
  <1>0. d \in Hands /\ op[d] \in Handling
    BY DEF Hands, TInv, HandlersFit, HandlersTyped
  <1>1. CASE RequestOtp(d)
    <2>1. CodesFit' /\ HandlersFit'
      BY <1>0, <1>1, GoOnFits DEF RequestOtp, Places
    <2> QED
      BY <1>1, <2>1 DEF RequestOtp, TInv, AccountTyped, TokensTyped, CacheTyped, account, tokens, permissions
  <1>2. CASE SignInWithPassword(d)
    <2>1. CodesFit' /\ HandlersFit'
      BY <1>0, <1>2, GoOnFits DEF SignInWithPassword, Places
    <2> QED
      BY <1>2, <2>1 DEF SignInWithPassword, TInv, AccountTyped, TokensTyped, CacheTyped, account, tokens,
         permissions
  <1>3. CASE SetPassword(d)
    <2>1. CodesFit' /\ HandlersFit'
      BY <1>0, <1>3, GoOnFits DEF SetPassword, Places
    <2> QED
      BY <1>3, <2>1 DEF SetPassword, TInv, AccountTyped, TokensTyped, CacheTyped, permissions
  <1>4. ASSUME NEW code \in Received \cup {0}, NEW aim \in {"signIn", "reset"}, VerifyOtp(d, code, aim)
        PROVE  TInv'
    BY <1>4, VerifyFits
  <1>5. CASE Refresh(d)
    <2>1. CodesFit' /\ HandlersFit'
      BY <1>0, <1>5, GoOnFits DEF Refresh, Places
    <2> QED
      BY <1>5, <2>1 DEF Refresh, TInv, AccountTyped, TokensTyped, CacheTyped, account, tokens, permissions
  <1>6. CASE RefreshRefused(d)
    <2>1. CodesFit' /\ HandlersFit'
      BY <1>6, StillFits DEF RefreshRefused
    <2> QED
      BY <1>6, <2>1
         DEF RefreshRefused, Drop, TInv, AccountTyped, TokensTyped, CacheTyped, account, permissions
  <1>7. CASE Logout(d)
    <2> DEFINE p == [op[d] EXCEPT !.at = "logout", !.todo = {token[d]}]
    <2>1. token[d] \in Tokens
      BY <1>7 DEF Logout, TInv, TokensTyped
    <2>2. p \in Handling /\ p.at = "logout"
      BY <1>0, <2>1 DEF Handling, Places
    <2>3. Goes(d, p) /\ UNCHANGED otps
      BY <1>7 DEF Logout
    <2>4. CodesFit' /\ HandlersFit'
      <3> HIDE DEF p
      <3> QED
        BY <1>0, <2>2, <2>3, QuietFits
    <2> QED
      BY <1>7, <2>4 DEF Logout, Drop, TInv, AccountTyped, TokensTyped, CacheTyped, account, permissions
  <1>8. CASE SetContext(d)
    <2>1. CodesFit' /\ HandlersFit'
      BY <1>8, StillFits DEF SetContext
    <2>2. TokensTyped'
      BY <1>8, IssueFits DEF SetContext
    <2> QED
      BY <1>8, <2>1, <2>2 DEF SetContext, TInv, AccountTyped, CacheTyped, account, permissions
  <1>9. CASE Resolve(d)
    <2> DEFINE p == [Idle EXCEPT !.at = "load"]
    <2>1. p \in Handling /\ p.at = "load"
      BY DEF Idle, Handling, Places
    <2>2. Goes(d, p) /\ UNCHANGED otps
      BY <1>9 DEF Resolve
    <2>3. CodesFit' /\ HandlersFit'
      <3> HIDE DEF p
      <3> QED
        BY <1>0, <2>1, <2>2, QuietFits
    <2> QED
      BY <1>9, <2>3 DEF Resolve, TInv, AccountTyped, TokensTyped, CacheTyped, account, tokens, permissions
  <1> QED
    BY <1>1, <1>2, <1>3, <1>4, <1>5, <1>6, <1>7, <1>8, <1>9 DEF Request

(* The steps of signing in and of a reset. *)
LEMMA SigningFits ==
    ASSUME TInv, NEW d \in Devices,
           \/ Gate(d) \/ Answer(d) \/ ResetPassword(d) \/ ListTokens(d) \/ Revoked(d)
           \/ \E t \in Tokens : RevokeOne(d, t) \/ EndOne(d, t)
    PROVE  TInv'
  <1>0. d \in Hands /\ op[d] \in Handling
    BY DEF Hands, TInv, HandlersFit, HandlersTyped
  <1>1. CASE Gate(d)
    <2> DEFINE a == IF op[d].aim = "reset" THEN "write" ELSE "answer"
               w == (op[d].aim = "signIn" /\ ~password)
               p == [op[d] EXCEPT !.at = a, !.aim = "none", !.needs = w]
    <2>1. Ends(d) \/ Goes(d, p)
      BY <1>1 DEF Gate
    <2>2. p \in Handling /\ p.at \in {"write", "answer"}
      <3>1. w \in BOOLEAN /\ a \in {"write", "answer"}
        OBVIOUS
      <3> HIDE DEF a, w
      <3> QED
        BY <1>0, <3>1 DEF Handling, Places
    <2>3. CodesFit' /\ HandlersFit'
      <3> HIDE DEF p
      <3> QED
        BY <1>0, <1>1, <2>1, <2>2, EndFits, QuietFits DEF Gate
    <2> QED
      BY <1>1, <2>3 DEF Gate, TInv, AccountTyped, TokensTyped, CacheTyped, account, tokens, permissions
  <1>2. CASE Answer(d)
    <2>1. CodesFit' /\ HandlersFit'
      BY <1>0, <1>2, EndFits DEF Answer
    <2>2. TokensTyped'
      <3>1. CASE UNCHANGED tokens
        BY <3>1 DEF tokens, TInv, TokensTyped
      <3>2. CASE setup' = setup \cup {d} /\ UNCHANGED <<token, revoked, ended, excused>>
        BY <3>2 DEF TInv, TokensTyped
      <3>3. CASE Issue(d) /\ UNCHANGED setup
        BY <3>3, IssueFits
      <3> QED
        BY <1>2, <3>1, <3>2, <3>3 DEF Answer
    <2> QED
      BY <1>2, <2>1, <2>2 DEF Answer, TInv, AccountTyped, CacheTyped, account, permissions
  <1>3. CASE ResetPassword(d)
    <2>1. CodesFit' /\ HandlersFit'
      BY <1>0, <1>3, GoOnFits DEF ResetPassword, Places
    <2> QED
      BY <1>3, <2>1 DEF ResetPassword, TInv, AccountTyped, TokensTyped, CacheTyped, tokens, permissions
  <1>4. CASE ListTokens(d)
    <2> DEFINE active == InUse \ ended
               p == [op[d] EXCEPT !.at = "revoke", !.todo = active]
    <2>1. InUse \subseteq Tokens
      BY InUseFits
    <2>2. p \in Handling /\ p.at = "revoke"
      <3>1. active \in SUBSET Tokens
        BY <2>1
      <3> HIDE DEF active
      <3> QED
        BY <1>0, <3>1 DEF Handling, Places
    <2>3. Goes(d, p) /\ UNCHANGED otps
      BY <1>4 DEF ListTokens
    <2>4. CodesFit' /\ HandlersFit'
      <3> HIDE DEF p
      <3> QED
        BY <1>0, <2>2, <2>3, QuietFits
    <2> QED
      BY <1>4, <2>1, <2>4 DEF ListTokens, TInv, AccountTyped, TokensTyped, CacheTyped, account, permissions
  <1>5. CASE Revoked(d)
    <2>1. CodesFit' /\ HandlersFit'
      BY <1>0, <1>5, GoOnFits DEF Revoked, Places
    <2> QED
      BY <1>5, <2>1 DEF Revoked, TInv, AccountTyped, TokensTyped, CacheTyped, account, tokens, permissions
  <1>6. ASSUME NEW t \in Tokens, RevokeOne(d, t) PROVE TInv'
    <2> DEFINE p == [op[d] EXCEPT !.todo = @ \ {t}, !.left = @ \cup {t}]
    <2>1. p \in Handling /\ p.at = "revoke"
      BY <1>0, <1>6 DEF RevokeOne, At, Handling
    <2>2. Goes(d, p) /\ UNCHANGED otps
      BY <1>6 DEF RevokeOne
    <2>3. CodesFit' /\ HandlersFit'
      <3> HIDE DEF p
      <3> QED
        BY <1>0, <2>1, <2>2, QuietFits
    <2> QED
      BY <1>6, <2>3 DEF RevokeOne, TInv, AccountTyped, TokensTyped, CacheTyped, account, permissions
  <1>7. ASSUME NEW t \in Tokens, EndOne(d, t) PROVE TInv'
    <2> DEFINE p == [op[d] EXCEPT !.left = @ \ {t}]
    <2>1. p \in Handling /\ p.at = "revoke"
      BY <1>0, <1>7 DEF EndOne, At, Handling
    <2>2. Goes(d, p) /\ UNCHANGED otps
      BY <1>7 DEF EndOne
    <2>3. CodesFit' /\ HandlersFit'
      <3> HIDE DEF p
      <3> QED
        BY <1>0, <2>1, <2>2, QuietFits
    <2> QED
      BY <1>7, <2>3 DEF EndOne, TInv, AccountTyped, TokensTyped, CacheTyped, account, permissions
  <1> QED
    BY <1>1, <1>2, <1>3, <1>4, <1>5, <1>6, <1>7

(* A device that refreshes has a token: what it holds changes only while   *)
(* it is at rest, and when its own handler issues one.                     *)
Rotates == \A d \in Devices : op[d].at = "rotate" => token[d] # 0

(* It stays so when another handler moves, or one that leaves a refresh.   *)
LEMMA RotatesMove ==
    ASSUME HandlersTyped, Rotates, NEW d \in Hands, NEW p, Goes(d, p), p.at # "rotate",
           \A e \in Devices : e # d => token'[e] = token[e]
    PROVE  Rotates'
  <1>1. \A e \in Hands : op'[e] = IF e = d THEN p ELSE op[e]
    BY DEF Goes, HandlersTyped
  <1> QED
    BY <1>1 DEF Rotates, Hands

(* ... when a handler ends, ...                                            *)
LEMMA RotatesEnd ==
    ASSUME HandlersTyped, Rotates, NEW d \in Hands, Ends(d),
           \A e \in Devices : e # d => token'[e] = token[e]
    PROVE  Rotates'
  BY IdleFits, RotatesMove DEF Ends

(* ... and when it goes on to any other place.                             *)
LEMMA RotatesGo ==
    ASSUME HandlersTyped, Rotates, NEW d \in Hands, NEW a, Moves(d, a), a # "rotate",
           \A e \in Devices : e # d => token'[e] = token[e]
    PROVE  Rotates'
  <1> DEFINE p == [op[d] EXCEPT !.at = a]
  <1>1. op[d] \in Handling
    BY DEF HandlersTyped
  <1>2. p.at = a
    BY <1>1 DEF Handling
  <1>3. Goes(d, p)
    BY DEF Moves
  <1> HIDE DEF p
  <1> QED
    BY <1>2, <1>3, RotatesMove

(* Every step keeps it.                                                    *)
LEMMA RotatesStep == TInv /\ Rotates /\ [Next]_vars => Rotates'
  <1> SUFFICES ASSUME TInv, Rotates, [Next]_vars PROVE Rotates'
    OBVIOUS
  <1>0. /\ HandlersTyped /\ Devices \subseteq Hands /\ "office" \in Hands
        /\ \A d \in Hands : op[d] \in Handling
        /\ token \in [Devices -> Tokens \cup {0}]
    BY DEF TInv, HandlersFit, HandlersTyped, TokensTyped, Hands
  <1>1. ASSUME NEW d \in Devices, UNCHANGED tokens,
               RequestOtp(d) \/ SignInWithPassword(d) \/ ResetPassword(d) \/ Revoked(d)
        PROVE  Rotates'
    BY <1>0, <1>1, RotatesGo DEF RequestOtp, SignInWithPassword, ResetPassword, Revoked, tokens
  <1>2. ASSUME NEW d \in Devices, SetPassword(d) \/ Rotate(d) PROVE Rotates'
    BY <1>0, <1>2, RotatesGo DEF SetPassword, Rotate
  <1>3. ASSUME NEW d \in Devices, (\E sent \in BOOLEAN : CreateOtp(d, sent)) \/ WrongCode(d) \/ CacheSet(d)
        PROVE  Rotates'
    BY <1>0, <1>3, RotatesEnd DEF CreateOtp, WrongCode, CacheSet, tokens
  <1>4. ASSUME NEW d \in Devices, LogoutEnds(d) PROVE Rotates'
    BY <1>0, <1>4, RotatesEnd DEF LogoutEnds
  <1>5. ASSUME NEW d \in Devices, Issue(d) \/ Drop(d), Ends(d) PROVE Rotates'
    <2>1. \A e \in Devices : e # d => token'[e] = token[e]
      BY <1>0, <1>5 DEF Issue, Drop
    <2> QED
      BY <1>0, <1>5, <2>1, RotatesEnd
  <1>6. ASSUME NEW d \in Devices, Answer(d) \/ Reissue(d) PROVE Rotates'
    <2>1. Ends(d) /\ (UNCHANGED token \/ Issue(d) \/ Drop(d))
      BY <1>6 DEF Answer, Reissue, tokens
    <2> QED
      BY <1>0, <1>5, <2>1, RotatesEnd
  <1>7. ASSUME NEW d \in Devices, Issue(d) \/ Drop(d), Resting(d), UNCHANGED op PROVE Rotates'
    BY <1>0, <1>7 DEF Rotates, Issue, Drop, Resting, At
  <1>8. ASSUME NEW d \in Devices, RefreshRefused(d) \/ SetContext(d) PROVE Rotates'
    BY <1>7, <1>8 DEF RefreshRefused, SetContext
  <1>9. ASSUME NEW d \in Devices, Refresh(d) PROVE Rotates'
    <2>1. \A e \in Devices : e # d => op'[e] = op[e]
      BY <1>0, <1>9 DEF Refresh, Moves, Goes, HandlersTyped
    <2> QED
      BY <1>9, <2>1 DEF Refresh, Rotates, tokens
  <1>10. ASSUME NEW d \in Devices, NEW p, Goes(d, p), p.at # "rotate", UNCHANGED token PROVE Rotates'
    BY <1>0, <1>10, RotatesMove
  <1>11. ASSUME NEW d \in Devices, NEW code, NEW aim, VerifyOtp(d, code, aim) PROVE Rotates'
    <2> DEFINE a == IF code = otps[Latest].code THEN "right" ELSE "wrong"
               p == [Idle EXCEPT !.at = a, !.code = otps[Latest].code, !.aim = aim,
                                 !.barred = aim = "reset" /\ standing # "good"]
    <2>1. p.at # "rotate"
      BY DEF Idle
    <2>2. Goes(d, p) /\ UNCHANGED token
      BY <1>11 DEF VerifyOtp, tokens
    <2> HIDE DEF p
    <2> QED
      BY <1>10, <2>1, <2>2
  <1>12. ASSUME NEW d \in Devices, RightCode(d) PROVE Rotates'
    <2> DEFINE p == [op[d] EXCEPT !.at = "gate", !.code = 0]
    <2>1. p.at # "rotate"
      BY <1>0 DEF Handling
    <2>2. Goes(d, p) /\ UNCHANGED token
      BY <1>12 DEF RightCode, tokens
    <2> HIDE DEF p
    <2> QED
      BY <1>10, <2>1, <2>2
  <1>13. ASSUME NEW d \in Devices, Gate(d) PROVE Rotates'
    <2> DEFINE a == IF op[d].aim = "reset" THEN "write" ELSE "answer"
               p == [op[d] EXCEPT !.at = a, !.aim = "none", !.needs = op[d].aim = "signIn" /\ ~password]
    <2>1. p.at # "rotate"
      <3>1. a # "rotate"
        OBVIOUS
      <3> HIDE DEF a
      <3> QED
        BY <1>0, <3>1 DEF Handling
    <2>2. Ends(d) \/ Goes(d, p)
      BY <1>13 DEF Gate
    <2>3. UNCHANGED token
      BY <1>13 DEF Gate, tokens
    <2> HIDE DEF p
    <2> QED
      BY <1>0, <1>10, <2>1, <2>2, <2>3, RotatesEnd
  <1>14. ASSUME NEW d \in Devices, ListTokens(d) PROVE Rotates'
    <2> DEFINE p == [op[d] EXCEPT !.at = "revoke", !.todo = InUse \ ended]
    <2>1. p.at # "rotate"
      BY <1>0 DEF Handling
    <2>2. Goes(d, p) /\ UNCHANGED token
      BY <1>14 DEF ListTokens
    <2> HIDE DEF p
    <2> QED
      BY <1>10, <2>1, <2>2
  <1>15. ASSUME NEW d \in Devices, NEW t \in Tokens, RevokeOne(d, t) PROVE Rotates'
    <2> DEFINE p == [op[d] EXCEPT !.todo = @ \ {t}, !.left = @ \cup {t}]
    <2>1. p.at # "rotate"
      BY <1>0, <1>15 DEF Handling, RevokeOne, At
    <2>2. Goes(d, p) /\ UNCHANGED token
      BY <1>15 DEF RevokeOne
    <2> HIDE DEF p
    <2> QED
      BY <1>10, <2>1, <2>2
  <1>16. ASSUME NEW d \in Devices, NEW t \in Tokens, EndOne(d, t) PROVE Rotates'
    <2> DEFINE p == [op[d] EXCEPT !.left = @ \ {t}]
    <2>1. p.at # "rotate"
      BY <1>0, <1>16 DEF Handling, EndOne, At
    <2>2. Goes(d, p) /\ UNCHANGED token
      BY <1>16 DEF EndOne
    <2> HIDE DEF p
    <2> QED
      BY <1>10, <2>1, <2>2
  <1>17. ASSUME NEW d \in Devices, Logout(d) PROVE Rotates'
    <2> DEFINE p == [op[d] EXCEPT !.at = "logout", !.todo = {token[d]}]
    <2>1. p.at # "rotate"
      BY <1>0 DEF Handling
    <2>2. Goes(d, p) /\ \A e \in Devices : e # d => token'[e] = token[e]
      BY <1>0, <1>17 DEF Logout, Drop
    <2> HIDE DEF p
    <2> QED
      BY <1>0, <2>1, <2>2, RotatesMove
  <1>18. ASSUME NEW d \in Devices, LogoutRevokes(d) PROVE Rotates'
    <2> DEFINE p == [op[d] EXCEPT !.todo = {}, !.left = op[d].todo]
    <2>1. p.at # "rotate"
      BY <1>0, <1>18 DEF Handling, LogoutRevokes, At
    <2>2. Goes(d, p) /\ UNCHANGED token
      BY <1>18 DEF LogoutRevokes
    <2> HIDE DEF p
    <2> QED
      BY <1>10, <2>1, <2>2
  <1>19. ASSUME NEW d \in Devices, Resolve(d) PROVE Rotates'
    <2> DEFINE p == [Idle EXCEPT !.at = "load"]
    <2>1. p.at # "rotate"
      BY DEF Idle
    <2>2. Goes(d, p) /\ UNCHANGED token
      BY <1>19 DEF Resolve, tokens
    <2> HIDE DEF p
    <2> QED
      BY <1>10, <2>1, <2>2
  <1>20. ASSUME NEW d \in Devices, LoadFromDb(d) PROVE Rotates'
    <2> DEFINE p == [op[d] EXCEPT !.at = "store", !.aim = role]
    <2>1. p.at # "rotate"
      BY <1>0 DEF Handling
    <2>2. Goes(d, p) /\ UNCHANGED token
      BY <1>20 DEF LoadFromDb, tokens
    <2> HIDE DEF p
    <2> QED
      BY <1>10, <2>1, <2>2
  <1>21. ASSUME NEW d \in Devices, Request(d) PROVE Rotates'
    BY <1>1, <1>2, <1>8, <1>9, <1>11, <1>17, <1>19, <1>21
       DEF Request, RequestOtp, SignInWithPassword, ResetPassword, Revoked
  <1>22. ASSUME NEW d \in Devices, Handler(d) PROVE Rotates'
    BY <1>1, <1>2, <1>3, <1>4, <1>6, <1>12, <1>13, <1>14, <1>15, <1>16, <1>18, <1>20, <1>22
       DEF Handler, ResetPassword, Revoked
  <1>23. ASSUME NEW r \in Roles, ChangeRole(r) PROVE Rotates'
    BY <1>0, <1>23, RotatesGo DEF ChangeRole, tokens
  <1>24. ASSUME NEW d \in Hands, InvalidateUser \/ Crash(d) PROVE Rotates'
    BY <1>0, <1>24, RotatesEnd DEF InvalidateUser, Crash, tokens
  <1>25. ASSUME UNCHANGED <<token, op>> PROVE Rotates'
    BY <1>25 DEF Rotates
  <1> QED
    BY <1>0, <1>21, <1>22, <1>23, <1>24, <1>25
       DEF Next, SetupExpires, AccountBecomes, DeleteUser, TokenExpires, Clock, vars, tokens, Hands

(* The steps of a refresh and of a logout, and those that load and cache   *)
(* permissions.                                                            *)
LEMMA SessionFits ==
    ASSUME TInv, Rotates, NEW d \in Devices,
           Rotate(d) \/ Reissue(d) \/ LogoutRevokes(d) \/ LogoutEnds(d) \/ LoadFromDb(d) \/ CacheSet(d)
    PROVE  TInv'
  <1>0. d \in Hands /\ op[d] \in Handling
    BY DEF Hands, TInv, HandlersFit, HandlersTyped
  <1>1. CASE Rotate(d)
    <2>1. CodesFit' /\ HandlersFit'
      BY <1>0, <1>1, GoOnFits DEF Rotate, Places
    <2>2. token[d] \in Tokens
      BY <1>1 DEF Rotate, At, Rotates, TInv, TokensTyped
    <2> QED
      BY <1>1, <2>1, <2>2 DEF Rotate, TInv, AccountTyped, TokensTyped, CacheTyped, account, permissions
  <1>2. CASE Reissue(d)
    <2>1. CodesFit' /\ HandlersFit'
      BY <1>0, <1>2, EndFits DEF Reissue
    <2>2. TokensTyped'
      <3>1. CASE Drop(d) /\ UNCHANGED <<setup, revoked, ended, excused>>
        BY <3>1 DEF Drop, TInv, TokensTyped
      <3>2. CASE Issue(d) /\ UNCHANGED setup
        BY <3>2, IssueFits
      <3> QED
        BY <1>2, <3>1, <3>2 DEF Reissue
    <2> QED
      BY <1>2, <2>1, <2>2 DEF Reissue, TInv, AccountTyped, CacheTyped, account, permissions
  <1>3. CASE LogoutRevokes(d)
    <2> DEFINE p == [op[d] EXCEPT !.todo = {}, !.left = op[d].todo]
    <2>1. op[d].todo \subseteq Tokens
      BY <1>0 DEF Handling
    <2>2. p \in Handling /\ p.at = "logout"
      BY <1>0, <1>3, <2>1 DEF LogoutRevokes, At, Handling
    <2>3. Goes(d, p) /\ UNCHANGED otps
      BY <1>3 DEF LogoutRevokes
    <2>4. CodesFit' /\ HandlersFit'
      <3> HIDE DEF p
      <3> QED
        BY <1>0, <2>2, <2>3, QuietFits
    <2> QED
      BY <1>3, <2>1, <2>4 DEF LogoutRevokes, TInv, AccountTyped, TokensTyped, CacheTyped, account, permissions
  <1>4. CASE LogoutEnds(d)
    <2>1. CodesFit' /\ HandlersFit'
      BY <1>0, <1>4, EndFits DEF LogoutEnds
    <2>2. op[d].left \subseteq Tokens
      BY <1>0 DEF Handling
    <2> QED
      BY <1>4, <2>1, <2>2 DEF LogoutEnds, TInv, AccountTyped, TokensTyped, CacheTyped, account, permissions
  <1>5. CASE LoadFromDb(d)
    <2> DEFINE p == [op[d] EXCEPT !.at = "store", !.aim = role]
    <2>1. role \in Roles
      BY DEF TInv, CacheTyped
    <2>2. p \in Handling /\ p.at = "store" /\ p.aim \in Roles
      BY <1>0, <2>1 DEF Handling, Places
    <2>3. Goes(d, p) /\ UNCHANGED otps
      BY <1>5 DEF LoadFromDb
    <2>4. CodesFit' /\ HandlersFit'
      <3> HIDE DEF p
      <3> QED
        BY <1>0, <2>2, <2>3, QuietFits
    <2> QED
      BY <1>5, <2>4 DEF LoadFromDb, TInv, AccountTyped, TokensTyped, CacheTyped, account, tokens, permissions
  <1>6. CASE CacheSet(d)
    <2>1. CodesFit' /\ HandlersFit'
      BY <1>0, <1>6, EndFits DEF CacheSet
    <2>2. op[d].aim \in Roles
      BY <1>0, <1>6 DEF CacheSet, At, TInv, HandlersFit, Stores
    <2> QED
      BY <1>6, <2>1, <2>2 DEF CacheSet, TInv, AccountTyped, TokensTyped, CacheTyped, account, tokens
  <1> QED
    BY <1>1, <1>2, <1>3, <1>4, <1>5, <1>6

(* Handlers keep the types. *)
LEMMA HandlerFits ==
    ASSUME TInv, Rotates, NEW d \in Devices, Handler(d)
    PROVE  TInv'
  <1>1. ASSUME NEW sent \in BOOLEAN, CreateOtp(d, sent) PROVE TInv'
    BY <1>1, CreateFits
  <1>2. CASE WrongCode(d) \/ RightCode(d)
    BY <1>2, WrongFits, RightFits
  <1>3. CASE \/ Gate(d) \/ Answer(d) \/ ResetPassword(d) \/ ListTokens(d) \/ Revoked(d)
             \/ \E t \in Tokens : RevokeOne(d, t) \/ EndOne(d, t)
    BY <1>3, SigningFits
  <1>4. CASE Rotate(d) \/ Reissue(d) \/ LogoutRevokes(d) \/ LogoutEnds(d) \/ LoadFromDb(d) \/ CacheSet(d)
    BY <1>4, SessionFits
  <1> QED
    BY <1>1, <1>2, <1>3, <1>4 DEF Handler

(* Every step keeps the types, and the count of attempts. *)
LEMMA TypeStep == TInv /\ Rotates /\ [Next]_vars => TInv'
  <1> SUFFICES ASSUME TInv, Rotates, [Next]_vars PROVE TInv'
    OBVIOUS
  <1>0. "office" \in Hands /\ op["office"] \in Handling
    BY DEF Hands, TInv, HandlersFit, HandlersTyped
  <1>1. CASE UNCHANGED vars
    BY <1>1, StillFits DEF vars, TInv, AccountTyped, TokensTyped, CacheTyped, account, tokens, permissions
  <1>2. ASSUME NEW d \in Devices, Request(d) \/ Handler(d) PROVE TInv'
    BY <1>2, RequestFits, HandlerFits
  <1>3. ASSUME NEW d \in Devices, SetupExpires(d) PROVE TInv'
    BY <1>3, StillFits DEF SetupExpires, TInv, AccountTyped, TokensTyped, CacheTyped, account, permissions
  <1>4. ASSUME NEW r \in Roles, ChangeRole(r) PROVE TInv'
    <2>1. CodesFit' /\ HandlersFit'
      BY <1>0, <1>4, GoOnFits DEF ChangeRole, Places
    <2> QED
      BY <1>4, <2>1 DEF ChangeRole, TInv, AccountTyped, TokensTyped, CacheTyped, account, tokens
  <1>5. CASE InvalidateUser
    <2>1. CodesFit' /\ HandlersFit'
      BY <1>0, <1>5, EndFits DEF InvalidateUser
    <2> QED
      BY <1>5, <2>1 DEF InvalidateUser, NoEntry, TInv, AccountTyped, TokensTyped, CacheTyped, account, tokens
  <1>6. ASSUME NEW s \in {"good", "barred"}, AccountBecomes(s) PROVE TInv'
    BY <1>6, StillFits DEF AccountBecomes, TInv, AccountTyped, TokensTyped, CacheTyped, tokens, permissions
  <1>7. CASE DeleteUser
    BY <1>7, StillFits, InUseFits DEF DeleteUser, TInv, AccountTyped, TokensTyped, CacheTyped, permissions
  <1>8. ASSUME NEW t \in Tokens, TokenExpires(t) PROVE TInv'
    BY <1>8, StillFits DEF TokenExpires, TInv, AccountTyped, TokensTyped, CacheTyped, account, permissions
  <1>9. CASE Clock
    BY <1>9, ClockFits
  <1>10. ASSUME NEW d \in Hands, Crash(d) PROVE TInv'
    <2>1. CodesFit' /\ HandlersFit'
      BY <1>10, EndFits DEF Crash
    <2> QED
      BY <1>10, <2>1 DEF Crash, TInv, AccountTyped, TokensTyped, CacheTyped, permissions
  <1> QED
    BY <1>1, <1>2, <1>3, <1>4, <1>5, <1>6, <1>7, <1>8, <1>9, <1>10 DEF Next, Hands

(* Whatever overlaps and whatever dies: tokens, codes and handlers have    *)
(* their types, no two codes have the same name, and the attempts at a     *)
(* code, those under way included, do not pass the limit by more than one  *)
(* for each of the other devices.                                          *)
THEOREM AttemptsLimited == Spec => [](TInv /\ Rotates)
  <1>1. Init => Rotates
    BY DEF Init, Rotates, Idle
  <1> QED
    BY <1>1, TypeInit, TypeStep, RotatesStep, PTL DEF Spec

(* Type correctness. *)
THEOREM TypeCorrect == Spec => []TypeOK
  <1>1. TInv => TypeOK
    BY TypesAreTypes DEF TInv, CodesFit, HandlersFit
  <1> QED
    BY <1>1, AttemptsLimited, PTL
=============================================================================
