---------------------------- MODULE Registration ----------------------------
(***************************************************************************)
(* The registration of one client, from the phone number to the first      *)
(* booking: the onboarding requests, each authorised by a token that names *)
(* the client and perhaps an organisation, the review of the organisation  *)
(* and the pinning of its site.                                            *)
(*                                                                         *)
(* A client has several devices and repeats requests, so that handlers may *)
(* overlap; op[c] is a handler's place.  What a handler reads before its   *)
(* first write is one step here, and every write is a step of its own.     *)
(* Nobody else invites the client to an organisation, deletes it, or has   *)
(* taken its TIN.                                                          *)
(***************************************************************************)
EXTENDS Naturals, Sequences

CONSTANTS
    Clerks,         \* request handlers of the server processes
    Scenarios,      \* circumstances, one of which is chosen at the start
    MaxOrgs         \* bound: organisations the client creates

(* BUSINESS stands for every type but INDIVIDUAL. *)
OrgType == {"INDIVIDUAL", "BUSINESS"}
DocumentType == {"NATIONAL_ID", "TIN_CERTIFICATE", "BUSINESS_REGISTRATION", "OTHER"}
(* The client has one number; a request may leave it out. *)
Tin == {"omitted", "blank", "given"}

(* How many handlers there are, and how many die on their way; the kinds   *)
(* of organisation, the papers and the numbers the client gives; whether   *)
(* the staff review its organisations.                                     *)
Scenario == [clerks : SUBSET Clerks, crashes : Nat, types : SUBSET OrgType, papers : SUBSET DocumentType,
             tins : SUBSET Tin, reviewed : BOOLEAN]
ASSUME SomeCircumstances == Scenarios \subseteq Scenario

VARIABLES
    scenario,   \* chosen once
    user,       \* the client's row
    orgs,       \* its organisations, in order of creation
    tokens,     \* organisations named by its onboarding tokens, 0 for none
    crashes,    \* handlers that died
    op

account == <<user, orgs, tokens>>
vars == <<scenario, account, crashes, op>>

Idle == [at |-> "idle", org |-> 0, site |-> 0, paper |-> "none"]
Stands(c, stage) == op[c].at = stage
Goes(c, place) == op' = [op EXCEPT ![c] = place]
Ends(c) == Goes(c, Idle)
Begins(c) == op[c] = Idle /\ c \in scenario.clerks
InSeries == \A c, d \in scenario.clerks : c = d

Init ==
    /\ scenario \in Scenarios
    /\ user = [status |-> "none", profile |-> FALSE, step |-> "PHONE_VERIFIED", completed |-> FALSE]
    /\ orgs = <<>>
    /\ tokens = {}
    /\ crashes = 0
    /\ op = [c \in Clerks |-> Idle]

-----------------------------------------------------------------------------
(* The oldest membership, 0 when there is none. *)
MembershipOrg == IF orgs = <<>> THEN 0 ELSE 1

(* resolveOnboardingContext: the organisation of the token, or else of the *)
(* membership.                                                             *)
Context(t) == IF t # 0 THEN t ELSE MembershipOrg

(* Mutants: whatever organisation the token names; whether or not the      *)
(* application is submitted.                                               *)
AuthorisedForAny(t) == user.status = "PENDING_VERIFICATION" /\ ~user.completed
AuthorisedForEver(t) == user.status # "none" /\ (t # 0 /\ MembershipOrg # 0 => t = MembershipOrg)

Authorised(t) ==
    /\ user.status = "PENDING_VERIFICATION" /\ ~user.completed
    /\ (t # 0 /\ MembershipOrg # 0 => t = MembershipOrg)

(* A handler of the onboarding routes begins, with the client's token. *)
Onboards(c, stage, t) ==
    /\ Begins(c) /\ t \in tokens /\ Authorised(t)
    /\ Goes(c, [Idle EXCEPT !.at = stage, !.org = Context(t)])

OnboardsOrg(c, stage, t) == Onboards(c, stage, t) /\ Context(t) # 0

SetsStep(step) == user' = [user EXCEPT !.step = step]
SetsOrg(o, field, value) == orgs' = [orgs EXCEPT ![o][field] = value]

(* verifyRegistrationStart, with a code that verifyOtp accepts. *)
VerifyStart(c) ==
    /\ Begins(c) /\ ~user.completed
    /\ Goes(c, [Idle EXCEPT !.at = IF user.status = "none" THEN "create" ELSE "verify",
                            !.org = MembershipOrg])
    /\ UNCHANGED <<scenario, crashes, account>>

(* The phone number is unique: the second of two creations throws. *)
VerifyCreate(c) ==
    /\ Stands(c, "create")
    /\ IF user.status = "none"
       THEN /\ user' = [user EXCEPT !.status = "PENDING_VERIFICATION"]
            /\ tokens' = tokens \cup {0}
       ELSE UNCHANGED <<user, tokens>>
    /\ Ends(c)
    /\ UNCHANGED <<scenario, crashes, orgs>>

VerifyWrite(c) ==
    /\ Stands(c, "verify")
    /\ SetsStep("PHONE_VERIFIED")
    /\ tokens' = tokens \cup {op[c].org}
    /\ Ends(c)
    /\ UNCHANGED <<scenario, crashes, orgs>>

(* resumeRegistration with the password. *)
Resume(c) ==
    /\ Begins(c) /\ user.status # "none" /\ ~user.completed /\ user.profile
    /\ tokens' = tokens \cup {MembershipOrg}
    /\ UNCHANGED <<scenario, crashes, user, orgs, op>>

-----------------------------------------------------------------------------
PatchProfile(c, t) == Onboards(c, "profile", t) /\ UNCHANGED <<scenario, crashes, account>>

ProfileWrite(c) ==
    /\ Stands(c, "profile")
    /\ user' = [user EXCEPT !.profile = TRUE, !.step = "PROFILE_COMPLETE"]
    /\ Ends(c)
    /\ UNCHANGED <<scenario, crashes, orgs, tokens>>

PatchBusiness(c, t) == Onboards(c, "business", t) /\ UNCHANGED <<scenario, crashes, account>>

NewOrg(type, tin) ==
    [type |-> type, tin |-> tin, documents |-> {}, sites |-> <<>>, applied |-> FALSE,
     verified |-> FALSE]

(* The column is unique, a blank number among the values. *)
Taken(o, tin) == tin # "omitted" /\ \E p \in DOMAIN orgs \ {o} : orgs[p].tin = tin

(* Organisation and membership are created in one statement; a TIN that    *)
(* the request leaves out stays as it is, a blank one does not.            *)
BusinessWrite(c, type, tin) ==
    LET o == op[c].org IN
    /\ Stands(c, "business") /\ ~Taken(o, tin)
    /\ IF o = 0
       THEN /\ Len(orgs) < MaxOrgs
            /\ orgs' = Append(orgs, NewOrg(type, tin))
            /\ Goes(c, [op[c] EXCEPT !.at = "businessStep", !.org = Len(orgs) + 1])
       ELSE /\ orgs' = [orgs EXCEPT ![o].type = type, ![o].tin = IF tin = "omitted" THEN @ ELSE tin]
            /\ Goes(c, [op[c] EXCEPT !.at = "businessStep"])
    /\ UNCHANGED <<scenario, crashes, user, tokens>>

(* The statement throws when another organisation has the number. *)
BusinessThrows(c) ==
    /\ Stands(c, "business")
    /\ \E tin \in scenario.tins : Taken(op[c].org, tin)
    /\ Ends(c)
    /\ UNCHANGED <<scenario, crashes, account>>

BusinessStep(c) ==
    /\ Stands(c, "businessStep")
    /\ SetsStep("PROFILE_COMPLETE")
    /\ tokens' = tokens \cup {op[c].org}
    /\ Ends(c)
    /\ UNCHANGED <<scenario, crashes, orgs>>

(* findFirst returns any primary site; 0 when there is none. *)
PatchLocation(c, t) ==
    /\ Begins(c) /\ t \in tokens /\ Authorised(t) /\ Context(t) # 0
    /\ LET sites == orgs[Context(t)].sites IN
       \E s \in IF sites = <<>> THEN {0} ELSE DOMAIN sites :
           Goes(c, [Idle EXCEPT !.at = "location", !.org = Context(t), !.site = s])
    /\ UNCHANGED <<scenario, crashes, account>>

LocationWrite(c) ==
    LET o == op[c].org IN
    /\ Stands(c, "location")
    /\ IF op[c].site = 0
       THEN SetsOrg(o, "sites", Append(orgs[o].sites, "DISTRICT_APPROX"))
       ELSE orgs' = [orgs EXCEPT ![o].sites[op[c].site] = "DISTRICT_APPROX"]
    /\ Goes(c, [op[c] EXCEPT !.at = "locationStep"])
    /\ UNCHANGED <<scenario, crashes, user, tokens>>

LocationStep(c) ==
    /\ Stands(c, "locationStep")
    /\ SetsStep("PAYMENT_COMPLETE")
    /\ Ends(c)
    /\ UNCHANGED <<scenario, crashes, orgs, tokens>>

(* patchPayment sets a provider and a number, which are there already, and *)
(* leaves the step as it is.                                               *)
PatchPayment(c, t) ==
    /\ Begins(c) /\ t \in tokens /\ Authorised(t) /\ Context(t) # 0
    /\ UNCHANGED vars

(* Mutant: that of an individual whatever the type. *)
SatisfyingIdentity(type) == {"NATIONAL_ID"}

Satisfying(type) ==
    {"TIN_CERTIFICATE", IF type = "INDIVIDUAL" THEN "NATIONAL_ID" ELSE "BUSINESS_REGISTRATION"}
IsDocumentTypeAllowed(type, document) == document = "OTHER" \/ document \in Satisfying(type)

RegisterDocument(c, t, document) ==
    /\ Begins(c) /\ t \in tokens /\ Authorised(t) /\ Context(t) # 0
    /\ IsDocumentTypeAllowed(orgs[Context(t)].type, document)
    /\ Goes(c, [Idle EXCEPT !.at = "document", !.org = Context(t), !.paper = document])
    /\ UNCHANGED <<scenario, crashes, account>>

DocumentWrite(c) ==
    LET o == op[c].org IN
    /\ Stands(c, "document")
    /\ SetsOrg(o, "documents", orgs[o].documents \cup {op[c].paper})
    /\ Goes(c, [op[c] EXCEPT !.at = "documentStep"])
    /\ UNCHANGED <<scenario, crashes, user, tokens>>

DocumentStep(c) ==
    /\ Stands(c, "documentStep")
    /\ SetsStep("DOCUMENTS_UPLOADED")
    /\ Ends(c)
    /\ UNCHANGED <<scenario, crashes, orgs, tokens>>

(* submitRegistration: every check, then the client's row, then the        *)
(* organisation's.                                                         *)
Complete(o) ==
    /\ user.profile
    /\ orgs[o].tin = "given" /\ orgs[o].sites # <<>>
    /\ orgs[o].documents \cap Satisfying(orgs[o].type) # {}

Submit(c, t) ==
    /\ OnboardsOrg(c, "submit", t) /\ Complete(Context(t))
    /\ UNCHANGED <<scenario, crashes, account>>

SubmitUser(c) ==
    /\ Stands(c, "submit")
    /\ user' = [user EXCEPT !.status = "ACTIVE", !.step = "SUBMITTED", !.completed = TRUE]
    /\ Goes(c, [op[c] EXCEPT !.at = "submitOrg"])
    /\ UNCHANGED <<scenario, crashes, orgs, tokens>>

SubmitOrg(c) ==
    /\ Stands(c, "submitOrg")
    /\ SetsOrg(op[c].org, "applied", TRUE)
    /\ Ends(c)
    /\ UNCHANGED <<scenario, crashes, user, tokens>>

-----------------------------------------------------------------------------
(* The staff verify an organisation or take it back, at any time; an owner *)
(* who is signed in pins the oldest primary site of a verified one.        *)
ReviewOrganization(c, o) ==
    /\ Begins(c) /\ scenario.reviewed /\ o \in DOMAIN orgs
    /\ SetsOrg(o, "verified", ~orgs[o].verified)
    /\ UNCHANGED <<scenario, crashes, user, tokens, op>>

UpdateOrganization(c, o, type) ==
    /\ Begins(c) /\ user.status = "ACTIVE" /\ o \in DOMAIN orgs
    /\ SetsOrg(o, "type", type)
    /\ UNCHANGED <<scenario, crashes, user, tokens, op>>

(* Mutant: the latest one. *)
LatestPrimary(o) == Len(orgs[o].sites)

PrimarySite(o) == IF orgs[o].sites = <<>> THEN 0 ELSE 1

CompletePrimarySite(c, o) ==
    /\ Begins(c) /\ user.status = "ACTIVE" /\ o \in DOMAIN orgs
    /\ orgs[o].verified /\ orgs[o].sites # <<>>
    /\ Goes(c, [Idle EXCEPT !.at = "pin", !.org = o, !.site = PrimarySite(o)])
    /\ UNCHANGED <<scenario, crashes, account>>

PinWrite(c) ==
    /\ Stands(c, "pin")
    /\ orgs' = [orgs EXCEPT ![op[c].org].sites[op[c].site] = "USER_PINNED"]
    /\ Ends(c)
    /\ UNCHANGED <<scenario, crashes, user, tokens>>

Crash(c) ==
    /\ crashes < scenario.crashes /\ op[c] # Idle
    /\ crashes' = crashes + 1
    /\ Ends(c)
    /\ UNCHANGED <<scenario, account>>

-----------------------------------------------------------------------------
Continue(c) ==
    \/ VerifyCreate(c) \/ VerifyWrite(c) \/ ProfileWrite(c)
    \/ (\E type \in scenario.types, tin \in scenario.tins : BusinessWrite(c, type, tin))
    \/ BusinessThrows(c) \/ BusinessStep(c)
    \/ LocationWrite(c) \/ LocationStep(c)
    \/ DocumentWrite(c) \/ DocumentStep(c)
    \/ SubmitUser(c) \/ SubmitOrg(c) \/ PinWrite(c)

Request(c) ==
    \/ VerifyStart(c) \/ Resume(c)
    \/ \E t \in tokens : \/ PatchProfile(c, t) \/ PatchBusiness(c, t) \/ PatchLocation(c, t)
                           \/ PatchPayment(c, t) \/ Submit(c, t)
                           \/ \E d \in scenario.papers : RegisterDocument(c, t, d)
    \/ \E o \in DOMAIN orgs : \/ ReviewOrganization(c, o)
                              \/ \E type \in scenario.types : UpdateOrganization(c, o, type)
                              \/ CompletePrimarySite(c, o)

Next == \E c \in Clerks : Request(c) \/ Continue(c) \/ Crash(c)

Spec == Init /\ [][Next]_vars

(* Handlers run on, and the client goes on: it repeats every request, in   *)
(* time with a TIN and a certificate for it, and pins its site.            *)
FairSpec ==
    /\ Spec
    /\ \A c \in Clerks : WF_vars(Continue(c))
    /\ SF_vars(\E c \in Clerks : VerifyStart(c))
    /\ SF_vars(\E c \in Clerks, t \in tokens : PatchProfile(c, t))
    /\ SF_vars(\E c \in Clerks, t \in tokens : PatchBusiness(c, t))
    /\ SF_vars(\E c \in Clerks, type \in scenario.types : BusinessWrite(c, type, "given"))
    /\ SF_vars(\E c \in Clerks, t \in tokens : PatchLocation(c, t))
    /\ SF_vars(\E c \in Clerks, t \in tokens : RegisterDocument(c, t, "TIN_CERTIFICATE"))
    /\ SF_vars(\E c \in Clerks, t \in tokens : Submit(c, t))
    /\ SF_vars(\E c \in Clerks, o \in DOMAIN orgs : CompletePrimarySite(c, o))

-----------------------------------------------------------------------------
(* However requests overlap and wherever handlers die: the application is  *)
(* that of the oldest organisation, which every later sign-in, resumption  *)
(* and token stands for, when two devices have created one each; in serial *)
(* order there is no other.                                                *)
OnlyFirstApplies ==
    /\ \A o \in DOMAIN orgs : orgs[o].applied => o = MembershipOrg
    /\ InSeries => Len(orgs) <= 1

(* In serial order, wherever handlers die: the step shown is SUBMITTED     *)
(* exactly when the client has submitted and may sign in.                  *)
StepAgrees ==
    InSeries => (user.step = "SUBMITTED" <=> user.completed) /\ (user.completed <=> user.status = "ACTIVE")

(* However they overlap and wherever handlers die: a client who goes on    *)
(* gets the application submitted, and as long as none dies the            *)
(* organisation comes to hold it; unless a second organisation holds the   *)
(* number, which no onboarding route can take back from it.                *)
RegistrationEnds ==
    <>(\/ user.completed /\ (crashes = 0 => \E o \in DOMAIN orgs : orgs[o].applied)
       \/ \E o \in DOMAIN orgs : o # MembershipOrg /\ orgs[o].tin = "given")

(* The same of the pin: the site that decides on booking gets pinned once  *)
(* the organisation stays verified.                                        *)
Unpinned(o) ==
    /\ user.completed /\ o \in DOMAIN orgs
    /\ orgs[o].verified /\ orgs[o].sites # <<>>
    /\ orgs[o].sites[1] # "USER_PINNED"
SiteGetsPinned == \A o \in 1 .. MaxOrgs : Unpinned(o) ~> ~Unpinned(o)
=============================================================================
