------------------------ MODULE Registration_proofs ------------------------
(***************************************************************************)
(* Theorems about Registration, for any number of handlers, crashes and    *)
(* organisations: the application is that of the first organisation, and   *)
(* in serial order the step agrees with what the client has submitted.     *)
(***************************************************************************)
EXTENDS Registration, TLAPS

Site == {"DISTRICT_APPROX", "USER_PINNED"}
Org == [type : OrgType, tin : Tin, documents : SUBSET DocumentType, sites : Seq(Site),
        applied : BOOLEAN, verified : BOOLEAN]
User == [status : {"none", "PENDING_VERIFICATION", "ACTIVE"}, profile : BOOLEAN,
         step : {"PHONE_VERIFIED", "PROFILE_COMPLETE", "PAYMENT_COMPLETE", "DOCUMENTS_UPLOADED", "SUBMITTED"},
         completed : BOOLEAN]

(* A handler acts for the client, for its organisation, or for that of the *)
(* application, which is the first.                                        *)
ClientStages == {"idle", "create", "verify", "profile", "business"}
SubmitStages == {"submit", "submitOrg"}
OrgStages == {"businessStep", "location", "locationStep", "document", "documentStep", "pin"} \cup SubmitStages
Place == [at : ClientStages \cup OrgStages, org : Nat, site : Nat, paper : DocumentType \cup {"none"}]

(* The place of a handler fits the n organisations that there are.         *)
Fits(r, n) ==
    /\ r \in Place /\ r.org <= n
    /\ r.at \in OrgStages => r.org # 0
    /\ r.at \in SubmitStages => r.org = 1
    /\ r.at = "document" => r.paper \in DocumentType

RowsTyped ==
    /\ scenario \in Scenario
    /\ user \in User
    /\ orgs \in Seq(Org)
    /\ tokens \subseteq 0 .. Len(orgs)

OpFits ==
    /\ op \in [Clerks -> Place]
    /\ \A c \in Clerks : Fits(op[c], Len(orgs)) /\ (op[c] # Idle => c \in scenario.clerks)

(* Only the first organisation applies. *)
FirstOnly == \A o \in DOMAIN orgs : orgs[o].applied => o = 1

(* The status of the client, and in serial order the step and the number   *)
(* of organisations: whoever is about to create one has seen none, and     *)
(* whoever is about to set a step has seen no application.                 *)
Agrees ==
    /\ user.completed <=> user.status = "ACTIVE"
    /\ InSeries =>
          /\ Len(orgs) <= 1
          /\ user.step = "SUBMITTED" <=> user.completed
          /\ \A c \in Clerks :
                /\ op[c].at = "business" /\ op[c].org = 0 => orgs = <<>>
                /\ op[c].at \notin {"idle", "submitOrg", "pin"} => ~user.completed

IInv == RowsTyped /\ OpFits /\ FirstOnly /\ Agrees

-----------------------------------------------------------------------------
(* An organisation whose row is replaced leaves the others as they are.    *)
LEMMA Replaced ==
    ASSUME NEW s \in Seq(Org), NEW o \in DOMAIN s, NEW r \in Org
    PROVE  /\ [s EXCEPT ![o] = r] \in Seq(Org)
           /\ DOMAIN [s EXCEPT ![o] = r] = DOMAIN s
           /\ Len([s EXCEPT ![o] = r]) = Len(s)
           /\ [s EXCEPT ![o] = r][o] = r
           /\ \A p \in DOMAIN s : p # o => [s EXCEPT ![o] = r][p] = s[p]
  OBVIOUS

(* Row o is changed, and applies only if it did before or is the first. *)
Changes(o) ==
    \E r \in Org : orgs' = [orgs EXCEPT ![o] = r] /\ (r.applied => orgs[o].applied \/ o = 1)

(* A changed row keeps the types and the applications.                     *)
LEMMA ChangeKeeps ==
    ASSUME orgs \in Seq(Org), FirstOnly, NEW o \in DOMAIN orgs, Changes(o)
    PROVE  orgs' \in Seq(Org) /\ Len(orgs') = Len(orgs) /\ FirstOnly'
  <1>1. PICK r \in Org : orgs' = [orgs EXCEPT ![o] = r] /\ (r.applied => orgs[o].applied \/ o = 1)
    BY DEF Changes
  <1>2. orgs' \in Seq(Org) /\ DOMAIN orgs' = DOMAIN orgs /\ Len(orgs') = Len(orgs)
        /\ orgs'[o] = r /\ \A p \in DOMAIN orgs : p # o => orgs'[p] = orgs[p]
    BY <1>1, Replaced
  <1> QED
    BY <1>1, <1>2 DEF FirstOnly

(* A site put in the place of another. *)
LEMMA SitesTyped ==
    ASSUME NEW s \in Seq(Site), NEW v \in Site, NEW i \in Nat
    PROVE  [s EXCEPT ![i] = v] \in Seq(Site)
  <1>1. s \in [1 .. Len(s) -> Site] /\ Len(s) \in Nat
    OBVIOUS
  <1>2. [s EXCEPT ![i] = v] \in [1 .. Len(s) -> Site]
    BY <1>1
  <1> QED
    BY <1>1, <1>2

(* A row and its fields. *)
LEMMA RowTyped ==
    ASSUME orgs \in Seq(Org), NEW o \in DOMAIN orgs
    PROVE  /\ orgs[o] \in Org /\ orgs[o].sites \in Seq(Site)
           /\ orgs[o].documents \in SUBSET DocumentType
           /\ orgs[o].tin \in Tin /\ orgs[o].verified \in BOOLEAN
  <1>1. orgs[o] \in Org
    OBVIOUS
  <1> QED
    BY <1>1 DEF Org

(* The fields that handlers write have their types. *)
LEMMA FieldsTyped ==
    ASSUME NEW r \in Org
    PROVE  /\ \A v \in Seq(Site) : /\ [r EXCEPT !.sites = v] \in Org
                                /\ [r EXCEPT !.sites = v].applied = r.applied
           /\ \A v \in SUBSET DocumentType :
                 [r EXCEPT !.documents = v] \in Org /\ [r EXCEPT !.documents = v].applied = r.applied
           /\ \A v \in BOOLEAN :
                 [r EXCEPT !.verified = v] \in Org /\ [r EXCEPT !.verified = v].applied = r.applied
           /\ \A v \in OrgType :
                 [r EXCEPT !.type = v] \in Org /\ [r EXCEPT !.type = v].applied = r.applied
           /\ [r EXCEPT !.applied = TRUE] \in Org
           /\ \A v \in OrgType, w \in Tin :
                 /\ [r EXCEPT !.type = v, !.tin = w] \in Org
                 /\ [r EXCEPT !.type = v, !.tin = w].applied = r.applied
  BY DEF Org

(* SetsOrg changes a field of one row. *)
LEMMA SetsField ==
    ASSUME orgs \in Seq(Org), NEW o \in DOMAIN orgs, NEW v
    PROVE  /\ SetsOrg(o, "sites", v) => orgs' = [orgs EXCEPT ![o] = [orgs[o] EXCEPT !.sites = v]]
           /\ SetsOrg(o, "documents", v) => orgs' = [orgs EXCEPT ![o] = [orgs[o] EXCEPT !.documents = v]]
           /\ SetsOrg(o, "applied", v) => orgs' = [orgs EXCEPT ![o] = [orgs[o] EXCEPT !.applied = v]]
           /\ SetsOrg(o, "verified", v) => orgs' = [orgs EXCEPT ![o] = [orgs[o] EXCEPT !.verified = v]]
           /\ SetsOrg(o, "type", v) => orgs' = [orgs EXCEPT ![o] = [orgs[o] EXCEPT !.type = v]]
  BY DEF SetsOrg, Org

(* The initial states. *)
LEMMA InitHolds == Init => IInv
  <1> SUFFICES ASSUME Init PROVE IInv
    OBVIOUS
  <1>1. RowsTyped
    BY SomeCircumstances DEF Init, RowsTyped, User
  <1>2. OpFits
    BY DEF Init, OpFits, Fits, Place, Idle, ClientStages, OrgStages, SubmitStages
  <1>3. FirstOnly /\ Agrees
    BY DEF Init, FirstOnly, Agrees, Idle
  <1> QED
    BY <1>1, <1>2, <1>3 DEF IInv

-----------------------------------------------------------------------------
(* How a step may change the organisations: not at all, one of them, or by *)
(* a new one.                                                              *)
Grows ==
    /\ orgs' \in Seq(Org) /\ Len(orgs') \in {Len(orgs), Len(orgs) + 1}
    /\ FirstOnly'
    /\ Len(orgs') # Len(orgs) => \E c \in Clerks : op[c].at = "business" /\ op[c].org = 0

(* Rows keep their types, and no step takes an application away.           *)
LEMMA OrgsStep == IInv /\ [Next]_vars => Grows
  <1> SUFFICES ASSUME IInv, [Next]_vars PROVE Grows
    OBVIOUS
  <1> USE DEF IInv, RowsTyped
  <1>0. Len(orgs) \in Nat /\ DOMAIN orgs = 1 .. Len(orgs)
    OBVIOUS
  <1>1. ASSUME UNCHANGED orgs PROVE Grows
    BY <1>0, <1>1 DEF Grows, FirstOnly
  <1>2. ASSUME NEW o \in DOMAIN orgs, Changes(o) PROVE Grows
    BY <1>0, <1>2, ChangeKeeps DEF Grows
  <1>3. ASSUME NEW c \in Clerks, op[c].at \in OrgStages PROVE op[c].org \in DOMAIN orgs
    BY <1>0, <1>3 DEF OpFits, Fits, Place
  <1>4. ASSUME NEW c \in Clerks, NEW type \in scenario.types, NEW tin \in scenario.tins,
               BusinessWrite(c, type, tin)
        PROVE  Grows
    <2>0. type \in OrgType /\ tin \in Tin /\ op[c].org \in 0 .. Len(orgs)
      BY <1>0 DEF Scenario, OpFits, Fits, Place
    <2>1. CASE op[c].org = 0
      <3>1. /\ orgs' = Append(orgs, NewOrg(type, tin))
            /\ NewOrg(type, tin) \in Org /\ ~NewOrg(type, tin).applied
            /\ op[c].at = "business"
        BY <1>4, <2>0, <2>1 DEF BusinessWrite, NewOrg, Org, Stands
      <3>2. /\ orgs' \in Seq(Org) /\ Len(orgs') = Len(orgs) + 1
            /\ \A p \in 1 .. Len(orgs) + 1 :
                  orgs'[p] = IF p = Len(orgs) + 1 THEN NewOrg(type, tin) ELSE orgs[p]
        BY <1>0, <3>1
      <3>3. FirstOnly'
        BY <1>0, <3>1, <3>2 DEF FirstOnly
      <3> QED
        BY <2>1, <3>1, <3>2, <3>3 DEF Grows
    <2>2. CASE op[c].org # 0
      <3> DEFINE o == op[c].org
                 known == IF tin = "omitted" THEN orgs[o].tin ELSE tin
                 r == [orgs[o] EXCEPT !.type = type, !.tin = known]
      <3>1. o \in DOMAIN orgs /\ orgs[o] \in Org
        BY <1>0, <2>0, <2>2
      <3>2. orgs' = [orgs EXCEPT ![o] = r]
        BY <1>4, <2>2, <3>1 DEF BusinessWrite, Org
      <3>3. r \in Org /\ r.applied = orgs[o].applied
        <4>1. known \in Tin
          BY <2>0, <3>1 DEF Org
        <4>2. \A v \in OrgType, w \in Tin :
                 /\ [orgs[o] EXCEPT !.type = v, !.tin = w] \in Org
                 /\ [orgs[o] EXCEPT !.type = v, !.tin = w].applied = orgs[o].applied
          BY <3>1, FieldsTyped
        <4> HIDE DEF known
        <4> QED
          BY <2>0, <4>1, <4>2
      <3> QED
        BY <1>2, <3>1, <3>2, <3>3 DEF Changes
    <2> QED
      BY <2>1, <2>2
  <1>5. ASSUME NEW c \in Clerks, NEW s \in Seq(Site), op[c].org \in DOMAIN orgs,
               orgs' = [orgs EXCEPT ![op[c].org] = [orgs[op[c].org] EXCEPT !.sites = s]]
        PROVE  Grows
    <2> DEFINE o == op[c].org
               r == [orgs[o] EXCEPT !.sites = s]
    <2>1. r \in Org /\ r.applied = orgs[o].applied
      BY <1>5, RowTyped, FieldsTyped
    <2> QED
      BY <1>2, <1>5, <2>1 DEF Changes
  <1>6. ASSUME NEW c \in Clerks, LocationWrite(c) PROVE Grows
    <2> DEFINE o == op[c].org
    <2>1. o \in DOMAIN orgs /\ op[c].site \in Nat
      BY <1>3, <1>6 DEF LocationWrite, Stands, OrgStages, OpFits, Fits, Place
    <2>2. orgs[o].sites \in Seq(Site) /\ "DISTRICT_APPROX" \in Site
      BY <2>1, RowTyped DEF Site
    <2>3. CASE op[c].site = 0
      <3>1. Append(orgs[o].sites, "DISTRICT_APPROX") \in Seq(Site)
        BY <2>2
      <3>2. orgs' = [orgs EXCEPT ![o] = [orgs[o] EXCEPT !.sites = Append(orgs[o].sites, "DISTRICT_APPROX")]]
        BY <1>6, <2>1, <2>3, SetsField DEF LocationWrite
      <3> QED
        BY <1>5, <2>1, <3>1, <3>2
    <2>4. CASE op[c].site # 0
      <3>1. orgs' = [orgs EXCEPT ![o] = [orgs[o] EXCEPT
                        !.sites = [orgs[o].sites EXCEPT ![op[c].site] = "DISTRICT_APPROX"]]]
        BY <1>6, <2>4 DEF LocationWrite
      <3> QED
        BY <1>5, <2>1, <2>2, <3>1, SitesTyped
    <2> QED
      BY <2>3, <2>4
  <1>7. ASSUME NEW c \in Clerks, PinWrite(c) PROVE Grows
    <2> DEFINE o == op[c].org
    <2>1. o \in DOMAIN orgs /\ op[c].site \in Nat
      BY <1>3, <1>7 DEF PinWrite, Stands, OrgStages, OpFits, Fits, Place
    <2>2. orgs[o].sites \in Seq(Site) /\ "USER_PINNED" \in Site
      BY <2>1, RowTyped DEF Site
    <2>3. orgs' = [orgs EXCEPT ![o] = [orgs[o] EXCEPT
                      !.sites = [orgs[o].sites EXCEPT ![op[c].site] = "USER_PINNED"]]]
      BY <1>7 DEF PinWrite
    <2> QED
      BY <1>5, <2>1, <2>2, <2>3, SitesTyped
  <1>8. ASSUME NEW c \in Clerks, DocumentWrite(c) PROVE Grows
    <2> DEFINE o == op[c].org
               v == orgs[o].documents \cup {op[c].paper}
    <2>1. o \in DOMAIN orgs /\ op[c].paper \in DocumentType
      BY <1>3, <1>8 DEF DocumentWrite, Stands, OrgStages, OpFits, Fits
    <2>2. v \in SUBSET DocumentType /\ orgs[o] \in Org
      BY <2>1, RowTyped
    <2>3. orgs' = [orgs EXCEPT ![o] = [orgs[o] EXCEPT !.documents = v]]
      BY <1>8, <2>1, SetsField DEF DocumentWrite
    <2>4. /\ [orgs[o] EXCEPT !.documents = v] \in Org
          /\ [orgs[o] EXCEPT !.documents = v].applied = orgs[o].applied
      BY <2>2, FieldsTyped
    <2> QED
      BY <1>2, <2>1, <2>3, <2>4 DEF Changes
  <1>9. ASSUME NEW c \in Clerks, SubmitOrg(c) PROVE Grows
    <2>1. op[c].org = 1 /\ 1 \in DOMAIN orgs
      BY <1>3, <1>9 DEF SubmitOrg, Stands, OrgStages, SubmitStages, OpFits, Fits
    <2>2. orgs' = [orgs EXCEPT ![1] = [orgs[1] EXCEPT !.applied = TRUE]]
      BY <1>9, <2>1, SetsField DEF SubmitOrg
    <2>3. [orgs[1] EXCEPT !.applied = TRUE] \in Org
      BY <2>1, RowTyped, FieldsTyped
    <2> QED
      BY <1>2, <2>1, <2>2, <2>3 DEF Changes
  <1>10. ASSUME NEW c \in Clerks, NEW o \in DOMAIN orgs, ReviewOrganization(c, o) PROVE Grows
    <2> DEFINE v == ~orgs[o].verified
    <2>1. orgs[o] \in Org /\ v \in BOOLEAN
      BY RowTyped
    <2>2. orgs' = [orgs EXCEPT ![o] = [orgs[o] EXCEPT !.verified = v]]
      BY <1>10, SetsField DEF ReviewOrganization
    <2>3. [orgs[o] EXCEPT !.verified = v] \in Org /\ [orgs[o] EXCEPT !.verified = v].applied = orgs[o].applied
      BY <2>1, FieldsTyped
    <2> QED
      BY <1>2, <2>2, <2>3 DEF Changes
  <1>11. ASSUME NEW c \in Clerks, NEW o \in DOMAIN orgs, NEW type \in scenario.types,
                UpdateOrganization(c, o, type)
         PROVE  Grows
    <2>1. orgs[o] \in Org /\ type \in OrgType
      BY DEF Scenario
    <2>2. orgs' = [orgs EXCEPT ![o] = [orgs[o] EXCEPT !.type = type]]
      BY <1>11, SetsField DEF UpdateOrganization
    <2>3. [orgs[o] EXCEPT !.type = type] \in Org /\ [orgs[o] EXCEPT !.type = type].applied = orgs[o].applied
      BY <2>1, RowTyped, FieldsTyped
    <2> QED
      BY <1>2, <2>2, <2>3 DEF Changes
  <1>12. CASE UNCHANGED vars
    BY <1>1, <1>12 DEF vars, account
  <1>13. ASSUME NEW c \in Clerks, Continue(c) PROVE Grows
    BY <1>1, <1>4, <1>6, <1>7, <1>8, <1>9, <1>13
       DEF Continue, VerifyCreate, VerifyWrite, ProfileWrite, BusinessStep, LocationStep, DocumentStep,
           SubmitUser, BusinessThrows, account
  <1>14. ASSUME NEW c \in Clerks, Request(c) PROVE Grows
    BY <1>1, <1>10, <1>11, <1>14
       DEF Request, VerifyStart, Resume, PatchProfile, PatchBusiness, PatchLocation, PatchPayment, Submit,
           RegisterDocument, CompletePrimarySite, account, vars
  <1>15. ASSUME NEW c \in Clerks, Crash(c) PROVE Grows
    BY <1>1, <1>15 DEF Crash, account
  <1> QED
    BY <1>12, <1>13, <1>14, <1>15 DEF Next

-----------------------------------------------------------------------------
(* A token names an organisation that there is.                            *)
LEMMA ContextFits ==
    ASSUME RowsTyped, NEW t \in tokens
    PROVE  /\ Context(t) \in 0 .. Len(orgs) /\ MembershipOrg \in 0 .. Len(orgs)
           /\ Context(t) # 0 => 1 \in DOMAIN orgs
           /\ Authorised(t) /\ Context(t) # 0 => Context(t) = 1
           /\ Context(t) = 0 => orgs = <<>>
  <1>1. t \in 0 .. Len(orgs) /\ Len(orgs) \in Nat /\ (orgs # <<>> => Len(orgs) >= 1)
        /\ DOMAIN orgs = 1 .. Len(orgs)
    BY DEF RowsTyped
  <1> QED
    BY <1>1 DEF Context, MembershipOrg, Authorised

(* The place of a handler that begins. *)
LEMMA IdlePlace == Idle \in Place
  BY DEF Idle, Place, ClientStages

(* Moving a handler on changes the fields that it names.                   *)
LEMMA PlaceFields ==
    ASSUME NEW q \in Place, NEW stage \in ClientStages \cup OrgStages, NEW o \in Nat
    PROVE  /\ [q EXCEPT !.at = stage, !.org = o] \in Place
           /\ [q EXCEPT !.at = stage, !.org = o].at = stage
           /\ [q EXCEPT !.at = stage, !.org = o].org = o
           /\ \A i \in Nat : /\ [q EXCEPT !.at = stage, !.org = o, !.site = i] \in Place
                             /\ [q EXCEPT !.at = stage, !.org = o, !.site = i].at = stage
                             /\ [q EXCEPT !.at = stage, !.org = o, !.site = i].org = o
           /\ \A d \in DocumentType :
                 /\ [q EXCEPT !.at = stage, !.org = o, !.paper = d] \in Place
                 /\ [q EXCEPT !.at = stage, !.org = o, !.paper = d].at = stage
                 /\ [q EXCEPT !.at = stage, !.org = o, !.paper = d].org = o
                 /\ [q EXCEPT !.at = stage, !.org = o, !.paper = d].paper = d
  BY DEF Place

(* A handler that begins is in a place of its own.                         *)
LEMMA Beginning ==
    ASSUME NEW n \in Nat, NEW stage \in (ClientStages \cup OrgStages) \ {"document"}, NEW o \in 0 .. n,
           stage \in OrgStages => o # 0, stage \in SubmitStages => o = 1
    PROVE  Fits([Idle EXCEPT !.at = stage, !.org = o], n)
  <1> DEFINE r == [Idle EXCEPT !.at = stage, !.org = o]
  <1>1. o <= n /\ o \in Nat
    OBVIOUS
  <1>2. r \in Place
    BY <1>1, IdlePlace, PlaceFields
  <1>3. r.at = stage /\ r.org = o
    BY IdlePlace DEF Place
  <1> HIDE DEF r
  <1> QED
    BY <1>1, <1>2, <1>3 DEF Fits, r

(* So is one that has picked a site.                                       *)
LEMMA BeginningAtSite ==
    ASSUME NEW n \in Nat, NEW stage \in {"location", "pin"}, NEW o \in 1 .. n, NEW i \in Nat
    PROVE  Fits([Idle EXCEPT !.at = stage, !.org = o, !.site = i], n)
  <1> DEFINE r == [Idle EXCEPT !.at = stage, !.org = o, !.site = i]
  <1>1. stage \in OrgStages /\ stage \notin SubmitStages \cup {"document"} /\ o <= n /\ o # 0 /\ o \in Nat
    BY DEF OrgStages, SubmitStages
  <1>2. r \in Place
    BY <1>1, IdlePlace, PlaceFields
  <1>3. r.at = stage /\ r.org = o
    BY IdlePlace DEF Place
  <1> HIDE DEF r
  <1> QED
    BY <1>1, <1>2, <1>3 DEF Fits, r

(* So is one that stores a document.                                       *)
LEMMA BeginningWithPaper ==
    ASSUME NEW n \in Nat, NEW o \in 1 .. n, NEW d \in DocumentType
    PROVE  Fits([Idle EXCEPT !.at = "document", !.org = o, !.paper = d], n)
  <1> DEFINE r == [Idle EXCEPT !.at = "document", !.org = o, !.paper = d]
  <1>1. "document" \in OrgStages /\ "document" \notin SubmitStages /\ o <= n /\ o # 0 /\ o \in Nat
    BY DEF OrgStages, SubmitStages
  <1>2. r \in Place
    BY <1>1, IdlePlace, PlaceFields
  <1>3. r.at = "document" /\ r.org = o /\ r.paper = d
    BY IdlePlace DEF Place
  <1> HIDE DEF r
  <1> QED
    BY <1>1, <1>2, <1>3 DEF Fits, r

(* A request begins a handler, if it needs one, and leaves the client's    *)
(* row alone.                                                              *)
LEMMA RequestFrame ==
    ASSUME NEW c \in Clerks, Request(c)
    PROVE  Begins(c) /\ UNCHANGED <<scenario, user>> /\ (UNCHANGED op \/ \E r : Goes(c, r))
  <1>1. CASE VerifyStart(c) \/ Resume(c)
    BY <1>1 DEF VerifyStart, Resume, account
  <1>2. ASSUME NEW t \in tokens, PatchProfile(c, t) \/ PatchBusiness(c, t) \/ Submit(c, t)
        PROVE  Begins(c) /\ UNCHANGED <<scenario, user>> /\ (\E r : Goes(c, r))
    BY <1>2 DEF PatchProfile, PatchBusiness, Submit, OnboardsOrg, Onboards, account
  <1>3. ASSUME NEW t \in tokens, PatchLocation(c, t)
        PROVE  Begins(c) /\ UNCHANGED <<scenario, user>> /\ (\E r : Goes(c, r))
    BY <1>3 DEF PatchLocation, account
  <1>4. ASSUME NEW t \in tokens, PatchPayment(c, t)
        PROVE  Begins(c) /\ UNCHANGED <<scenario, user, op>>
    BY <1>4 DEF PatchPayment, vars, account
  <1>5. ASSUME NEW t \in tokens, NEW d \in scenario.papers, RegisterDocument(c, t, d)
        PROVE  Begins(c) /\ UNCHANGED <<scenario, user>> /\ (\E r : Goes(c, r))
    BY <1>5 DEF RegisterDocument, account
  <1>6. ASSUME NEW o \in DOMAIN orgs,
               ReviewOrganization(c, o) \/ (\E type \in scenario.types : UpdateOrganization(c, o, type))
        PROVE  Begins(c) /\ UNCHANGED <<scenario, user, op>>
    BY <1>6 DEF ReviewOrganization, UpdateOrganization
  <1>7. ASSUME NEW o \in DOMAIN orgs, CompletePrimarySite(c, o)
        PROVE  Begins(c) /\ UNCHANGED <<scenario, user>> /\ (\E r : Goes(c, r))
    BY <1>7 DEF CompletePrimarySite, account
  <1> QED
    BY <1>1, <1>2, <1>3, <1>4, <1>5, <1>6, <1>7 DEF Request

(* A handler goes on from where it stands, or ends.                        *)
LEMMA ContinueFrame ==
    ASSUME NEW c \in Clerks, Continue(c)
    PROVE  op[c].at # "idle" /\ scenario' = scenario /\ (\E r : Goes(c, r))
  <1> DEFINE Frame == op[c].at # "idle" /\ scenario' = scenario /\ (\E r : Goes(c, r))
  <1>0. CASE BusinessThrows(c)
    BY <1>0 DEF BusinessThrows, Stands, Ends
  <1>1. CASE VerifyCreate(c) \/ VerifyWrite(c) \/ ProfileWrite(c) \/ BusinessStep(c) \/ LocationStep(c)
             \/ DocumentStep(c)
    BY <1>1 DEF VerifyCreate, VerifyWrite, ProfileWrite, BusinessStep, LocationStep, DocumentStep,
       Stands, Ends
  <1>2. ASSUME NEW type, NEW tin, BusinessWrite(c, type, tin) PROVE Frame
    BY <1>2 DEF BusinessWrite, Stands
  <1>3. CASE LocationWrite(c) \/ DocumentWrite(c) \/ SubmitUser(c)
    BY <1>3 DEF LocationWrite, DocumentWrite, SubmitUser, Stands
  <1>4. CASE SubmitOrg(c) \/ PinWrite(c)
    BY <1>4 DEF SubmitOrg, PinWrite, Stands, Ends
  <1> QED
    BY <1>0, <1>1, <1>2, <1>3, <1>4 DEF Continue

(* Handlers keep within the organisations that there are.                  *)
LEMMA PlacesStep == IInv /\ [Next]_vars => OpFits'
  <1> SUFFICES ASSUME IInv, [Next]_vars PROVE OpFits'
    OBVIOUS
  <1>1. Len(orgs) \in Nat /\ Len(orgs') \in {Len(orgs), Len(orgs) + 1} /\ DOMAIN orgs = 1 .. Len(orgs)
    BY OrgsStep DEF Grows, IInv, RowsTyped
  <1>2. scenario' = scenario
    BY RequestFrame, ContinueFrame DEF Next, vars, Crash
  <1>3. \A c \in Clerks : Fits(op[c], Len(orgs)) /\ Fits(op[c], Len(orgs'))
    BY <1>1 DEF IInv, OpFits, Fits, Place
  <1>4. ASSUME NEW c \in Clerks, NEW r, Goes(c, r), Fits(r, Len(orgs')),
               r = Idle \/ op[c] # Idle \/ c \in scenario.clerks
        PROVE  OpFits'
    BY <1>2, <1>3, <1>4 DEF IInv, OpFits, Goes, Fits
  <1>5. ASSUME NEW c \in Clerks, Ends(c) PROVE OpFits'
    <2>1. Fits(Idle, Len(orgs'))
      BY <1>1 DEF Fits, Place, Idle, ClientStages, OrgStages, SubmitStages
    <2> QED
      BY <1>4, <1>5, <2>1 DEF Ends
  <1>6. ASSUME UNCHANGED op PROVE OpFits'
    BY <1>2, <1>3, <1>6 DEF IInv, OpFits
  <1>n. Len(orgs') \in Nat /\ 0 .. Len(orgs) \subseteq 0 .. Len(orgs')
    BY <1>1
  <1>7. ASSUME NEW c \in Clerks, Continue(c) PROVE OpFits'
    <2> USE DEF Stands, Fits, Place, Idle, ClientStages, OrgStages, SubmitStages
    <2>2. ASSUME NEW type \in scenario.types, NEW tin \in scenario.tins, BusinessWrite(c, type, tin)
          PROVE  OpFits'
      <3>1. CASE op[c].org = 0
        <4>1. orgs' = Append(orgs, NewOrg(type, tin))
              /\ Goes(c, [op[c] EXCEPT !.at = "businessStep", !.org = Len(orgs) + 1])
          BY <2>2, <3>1 DEF BusinessWrite
        <4>2. Len(orgs') = Len(orgs) + 1
          BY <4>1 DEF IInv, RowsTyped
        <4> DEFINE r == [op[c] EXCEPT !.at = "businessStep", !.org = Len(orgs) + 1]
        <4>3. op[c] \in Place /\ op[c] # Idle
          BY <1>3, <2>2 DEF BusinessWrite
        <4>4. r \in Place /\ r.at = "businessStep" /\ r.org = Len(orgs) + 1
          <5>1. "businessStep" \in OrgStages /\ Len(orgs) + 1 \in Nat
            BY <1>1
          <5> QED
            BY <4>3, <5>1, PlaceFields
        <4>5. Fits(r, Len(orgs'))
          BY <1>1, <4>2, <4>4
        <4> QED
          BY <1>4, <4>1, <4>3, <4>5
      <3>2. CASE op[c].org # 0
        <4>1. Goes(c, [op[c] EXCEPT !.at = "businessStep"])
          BY <2>2, <3>2 DEF BusinessWrite
        <4>2. Fits([op[c] EXCEPT !.at = "businessStep"], Len(orgs'))
          BY <1>3, <3>2
        <4> QED
          BY <1>4, <2>2, <4>1, <4>2 DEF BusinessWrite
      <3> QED
        BY <3>1, <3>2
    <2>3. CASE LocationWrite(c)
      <3>1. Fits([op[c] EXCEPT !.at = "locationStep"], Len(orgs'))
        BY <1>3, <2>3 DEF LocationWrite
      <3> QED
        BY <1>4, <2>3, <3>1 DEF LocationWrite
    <2>4. CASE DocumentWrite(c)
      <3>1. Fits([op[c] EXCEPT !.at = "documentStep"], Len(orgs'))
        BY <1>3, <2>4 DEF DocumentWrite
      <3> QED
        BY <1>4, <2>4, <3>1 DEF DocumentWrite
    <2>5. CASE SubmitUser(c)
      <3>1. Fits([op[c] EXCEPT !.at = "submitOrg"], Len(orgs'))
        BY <1>3, <2>5 DEF SubmitUser
      <3> QED
        BY <1>4, <2>5, <3>1 DEF SubmitUser
    <2> QED
      BY <1>5, <1>7, <2>2, <2>3, <2>4, <2>5
         DEF Continue, VerifyCreate, VerifyWrite, ProfileWrite, BusinessStep, LocationStep, DocumentStep,
             BusinessThrows, SubmitOrg, PinWrite
  <1>8. ASSUME NEW c \in Clerks, NEW t \in tokens, NEW stage \in {"profile", "business", "submit"},
               Onboards(c, stage, t), stage = "submit" => Context(t) # 0
        PROVE  OpFits'
    <2>1. Context(t) \in 0 .. Len(orgs') /\ (Context(t) # 0 => Context(t) = 1)
      BY <1>n, <1>8, ContextFits DEF IInv, Onboards
    <2>2. stage \in (ClientStages \cup OrgStages) \ {"document"} /\ (stage \in OrgStages => stage = "submit")
          /\ (stage \in SubmitStages => stage = "submit")
      BY DEF ClientStages, OrgStages, SubmitStages
    <2>3. Fits([Idle EXCEPT !.at = stage, !.org = Context(t)], Len(orgs'))
      BY <1>n, <1>8, <2>1, <2>2, Beginning
    <2> QED
      BY <1>4, <1>8, <2>3 DEF Onboards, Begins
  <1>9. ASSUME NEW c \in Clerks, VerifyStart(c) PROVE OpFits'
    <2>1. MembershipOrg \in 0 .. Len(orgs)
      BY <1>1 DEF MembershipOrg, IInv, RowsTyped
    <2> DEFINE stage == IF user.status = "none" THEN "create" ELSE "verify"
    <2>2. stage \in (ClientStages \cup OrgStages) \ {"document"} /\ stage \notin OrgStages \cup SubmitStages
      BY DEF ClientStages, OrgStages, SubmitStages
    <2>3. Fits([Idle EXCEPT !.at = stage, !.org = MembershipOrg], Len(orgs'))
      <3> HIDE DEF stage
      <3> QED
        BY <1>n, <2>1, <2>2, Beginning
    <2> QED
      BY <1>4, <1>9, <2>3 DEF VerifyStart, Begins
  <1>10. ASSUME NEW c \in Clerks, NEW t \in tokens, PatchLocation(c, t) PROVE OpFits'
    <2>1. Context(t) \in 0 .. Len(orgs) /\ Context(t) = 1
      BY <1>10, ContextFits DEF IInv, PatchLocation
    <2>2. PICK s \in Nat : Goes(c, [Idle EXCEPT !.at = "location", !.org = Context(t), !.site = s])
      <3>1. orgs[Context(t)].sites \in Seq(Site)
        BY <1>1, <2>1, RowTyped DEF IInv, RowsTyped
      <3>2. DOMAIN orgs[Context(t)].sites \subseteq Nat
        BY <3>1
      <3> QED
        BY <1>10, <3>2 DEF PatchLocation
    <2>3. Fits([Idle EXCEPT !.at = "location", !.org = Context(t), !.site = s], Len(orgs'))
      <3>1. Context(t) \in 1 .. Len(orgs')
        BY <1>1, <2>1
      <3> QED
        BY <1>n, <3>1, BeginningAtSite
    <2> QED
      BY <1>4, <1>10, <2>2, <2>3 DEF PatchLocation, Begins
  <1>11. ASSUME NEW c \in Clerks, NEW t \in tokens, NEW d \in scenario.papers, RegisterDocument(c, t, d)
         PROVE  OpFits'
    <2>1. Context(t) \in 0 .. Len(orgs) /\ Context(t) # 0
      BY <1>11, ContextFits DEF IInv, RegisterDocument
    <2>2. d \in DocumentType
      BY DEF IInv, RowsTyped, Scenario
    <2>3. Fits([Idle EXCEPT !.at = "document", !.org = Context(t), !.paper = d], Len(orgs'))
      <3>1. Context(t) \in 1 .. Len(orgs')
        BY <1>1, <2>1
      <3> QED
        BY <1>n, <2>2, <3>1, BeginningWithPaper
    <2> QED
      BY <1>4, <1>11, <2>3 DEF RegisterDocument, Begins
  <1>12. ASSUME NEW c \in Clerks, NEW o \in DOMAIN orgs, CompletePrimarySite(c, o) PROVE OpFits'
    <2>1. Fits([Idle EXCEPT !.at = "pin", !.org = o, !.site = PrimarySite(o)], Len(orgs'))
      <3>1. o \in 1 .. Len(orgs') /\ PrimarySite(o) \in Nat
        BY <1>1 DEF PrimarySite
      <3> QED
        BY <1>n, <3>1, BeginningAtSite
    <2> QED
      BY <1>4, <1>12, <2>1 DEF CompletePrimarySite, Begins
  <1>13. ASSUME NEW c \in Clerks, Request(c) PROVE OpFits'
    <2>1. ASSUME NEW t \in tokens,
                 PatchProfile(c, t) \/ PatchBusiness(c, t) \/ PatchPayment(c, t) \/ Submit(c, t)
          PROVE  OpFits'
      <3>1. CASE PatchProfile(c, t)
        BY <1>8, <3>1 DEF PatchProfile
      <3>2. CASE PatchBusiness(c, t)
        BY <1>8, <3>2 DEF PatchBusiness
      <3>3. CASE PatchPayment(c, t)
        BY <1>6, <3>3 DEF PatchPayment, vars
      <3>4. CASE Submit(c, t)
        BY <1>8, <3>4 DEF Submit, OnboardsOrg
      <3> QED
        BY <2>1, <3>1, <3>2, <3>3, <3>4
    <2> QED
      BY <1>6, <1>9, <1>10, <1>11, <1>12, <1>13, <2>1
         DEF Request, Resume, ReviewOrganization, UpdateOrganization
  <1>14. ASSUME NEW c \in Clerks, Crash(c) PROVE OpFits'
    BY <1>5, <1>14 DEF Crash
  <1>15. CASE UNCHANGED vars
    BY <1>6, <1>15 DEF vars
  <1> QED
    BY <1>7, <1>13, <1>14, <1>15 DEF Next

(* The client's row, its tokens and the circumstances keep their types.    *)
LEMMA RowsStep == IInv /\ [Next]_vars => RowsTyped'
  <1> SUFFICES ASSUME IInv, [Next]_vars PROVE RowsTyped'
    OBVIOUS
  <1>1. /\ orgs' \in Seq(Org) /\ 0 .. Len(orgs) \subseteq 0 .. Len(orgs')
        /\ user \in User /\ tokens \subseteq 0 .. Len(orgs) /\ scenario \in Scenario
    BY OrgsStep DEF Grows, IInv, RowsTyped
  <1>2. MembershipOrg \in 0 .. Len(orgs) /\ 0 \in 0 .. Len(orgs)
    BY DEF MembershipOrg, IInv, RowsTyped
  <1>3. \A c \in Clerks : op[c].org \in 0 .. Len(orgs)
    BY DEF IInv, RowsTyped, OpFits, Fits, Place
  <1>4. ASSUME user' \in User, scenario' = scenario, tokens' \subseteq 0 .. Len(orgs) PROVE RowsTyped'
    BY <1>1, <1>4 DEF RowsTyped
  <1>5. CASE UNCHANGED vars
    BY <1>1, <1>4, <1>5 DEF vars, account
  <1>6. ASSUME NEW c \in Clerks, Crash(c) PROVE RowsTyped'
    BY <1>1, <1>4, <1>6 DEF Crash, account
  <1>7. ASSUME NEW c \in Clerks, Request(c) PROVE RowsTyped'
    <2>1. user' = user /\ scenario' = scenario /\ (tokens' = tokens \/ tokens' = tokens \cup {MembershipOrg})
      BY <1>7 DEF Request, VerifyStart, Resume, PatchProfile, PatchBusiness, PatchLocation, PatchPayment,
         Submit, RegisterDocument, ReviewOrganization, UpdateOrganization, CompletePrimarySite, account, vars
    <2> QED
      BY <1>1, <1>2, <1>4, <2>1
  <1>8. ASSUME NEW c \in Clerks, Continue(c) PROVE RowsTyped'
    <2> DEFINE Kept == /\ scenario' = scenario /\ user' \in User
                       /\ tokens' \in {tokens, tokens \cup {0}, tokens \cup {op[c].org}}
    <2>1. CASE VerifyCreate(c)
      <3>1. Kept
        BY <1>1, <2>1 DEF VerifyCreate, User
      <3> QED
        BY <1>1, <1>2, <1>3, <1>4, <3>1
    <2>0. CASE BusinessThrows(c)
      <3>1. Kept
        BY <1>1, <2>0 DEF BusinessThrows, account
      <3> QED
        BY <1>1, <1>2, <1>3, <1>4, <3>1
    <2>2. CASE VerifyWrite(c) \/ BusinessStep(c) \/ LocationStep(c) \/ DocumentStep(c)
      <3>1. Kept
        BY <1>1, <2>2 DEF VerifyWrite, BusinessStep, LocationStep, DocumentStep, SetsStep, User
      <3> QED
        BY <1>1, <1>2, <1>3, <1>4, <3>1
    <2>3. CASE ProfileWrite(c) \/ SubmitUser(c)
      <3>1. Kept
        BY <1>1, <2>3 DEF ProfileWrite, SubmitUser, User
      <3> QED
        BY <1>1, <1>2, <1>3, <1>4, <3>1
    <2>4. CASE \/ \E type \in scenario.types, tin \in scenario.tins : BusinessWrite(c, type, tin)
               \/ LocationWrite(c) \/ DocumentWrite(c) \/ SubmitOrg(c) \/ PinWrite(c)
      <3>1. UNCHANGED <<scenario, user, tokens>>
        BY <2>4 DEF BusinessWrite, LocationWrite, DocumentWrite, SubmitOrg, PinWrite
      <3> QED
        BY <1>1, <1>4, <3>1
    <2> QED
      BY <1>8, <2>0, <2>1, <2>2, <2>3, <2>4 DEF Continue
  <1> QED
    BY <1>5, <1>6, <1>7, <1>8 DEF Next

-----------------------------------------------------------------------------
(* What a handler on its own finds when it takes its next step.            *)
AgreesFor(c) ==
    /\ op[c].at = "business" /\ op[c].org = 0 => orgs = <<>>
    /\ op[c].at \notin {"idle", "submitOrg", "pin"} => ~user.completed

(* The status, and the step in serial order, change with the application.  *)
LEMMA UserStep ==
    ASSUME IInv, NEW c \in Clerks, Request(c) \/ Continue(c) \/ Crash(c)
    PROVE  /\ user'.completed <=> user'.status = "ACTIVE"
           /\ InSeries => (user'.step = "SUBMITTED" <=> user'.completed)
  <1>1. /\ user \in User /\ (user.completed <=> user.status = "ACTIVE")
        /\ InSeries => (user.step = "SUBMITTED" <=> user.completed) /\ AgreesFor(c)
    BY DEF IInv, RowsTyped, Agrees, AgreesFor
  <1>2. CASE UNCHANGED user
    BY <1>1, <1>2
  <1>3. CASE VerifyCreate(c)
    BY <1>1, <1>3 DEF VerifyCreate, User, AgreesFor, Stands
  <1>4. CASE VerifyWrite(c) \/ ProfileWrite(c) \/ BusinessStep(c) \/ LocationStep(c) \/ DocumentStep(c)
    <2>1. op[c].at \notin {"idle", "submitOrg", "pin"} /\ user'.step # "SUBMITTED"
          /\ user'.status = user.status /\ user'.completed = user.completed
      BY <1>1, <1>4
         DEF VerifyWrite, ProfileWrite, BusinessStep, LocationStep, DocumentStep, SetsStep, User, Stands
    <2> QED
      BY <1>1, <2>1 DEF AgreesFor
  <1>5. CASE SubmitUser(c)
    BY <1>1, <1>5 DEF SubmitUser, User
  <1>6. CASE Request(c) \/ Crash(c)
    BY <1>2, <1>6, RequestFrame DEF Crash, account
  <1> QED
    BY <1>2, <1>3, <1>4, <1>5, <1>6
       DEF Continue, BusinessWrite, BusinessThrows, LocationWrite, DocumentWrite, SubmitOrg, PinWrite, account

(* The handler that takes a step finds what it expects at the next one.    *)
LEMMA OwnStep ==
    ASSUME IInv, InSeries, NEW c \in Clerks, Request(c) \/ Continue(c) \/ Crash(c)
    PROVE  AgreesFor(c)'
  <1>1. op \in [Clerks -> Place] /\ user \in User /\ AgreesFor(c)
    BY DEF IInv, RowsTyped, OpFits, Agrees, AgreesFor
  <1>2. CASE Crash(c)
    BY <1>1, <1>2 DEF Crash, Ends, Goes, Idle, AgreesFor, account
  <1>3. CASE Continue(c)
    <2>1. CASE op'[c].at \in {"idle", "submitOrg"}
      BY <2>1 DEF AgreesFor
    <2>2. CASE op'[c].at \notin {"idle", "submitOrg"}
      <3>1. ~Ends(c)
        BY <1>1, <2>2 DEF Ends, Goes, Idle
      <3>2. \/ \E type \in scenario.types, tin \in scenario.tins : BusinessWrite(c, type, tin)
            \/ LocationWrite(c) \/ DocumentWrite(c) \/ SubmitUser(c)
        BY <1>3, <3>1 DEF Continue, VerifyCreate, VerifyWrite, ProfileWrite, BusinessStep, LocationStep,
           BusinessThrows, DocumentStep, SubmitOrg, PinWrite
      <3>3. ~SubmitUser(c)
        BY <1>1, <2>2 DEF SubmitUser, Goes, Place
      <3>4. op[c].at \in {"business", "location", "document"} /\ user' = user
        BY <3>2, <3>3 DEF BusinessWrite, LocationWrite, DocumentWrite, Stands
      <3>5. \E r : Goes(c, r) /\ r.at \in {"businessStep", "locationStep", "documentStep"}
        <4>1. op[c] \in Place
          BY <1>1
        <4>2. \A stage : [op[c] EXCEPT !.at = stage].at = stage
          BY <4>1 DEF Place
        <4>3. \A o : [op[c] EXCEPT !.at = "businessStep", !.org = o].at = "businessStep"
          BY <4>1 DEF Place
        <4>4. CASE LocationWrite(c)
          BY <4>2, <4>4 DEF LocationWrite
        <4>5. CASE DocumentWrite(c)
          BY <4>2, <4>5 DEF DocumentWrite
        <4>6. ASSUME NEW type, NEW tin, BusinessWrite(c, type, tin)
              PROVE  \E r : Goes(c, r) /\ r.at = "businessStep"
          BY <4>2, <4>3, <4>6 DEF BusinessWrite
        <4> QED
          BY <3>2, <3>3, <4>4, <4>5, <4>6
      <3>6. op'[c].at \in {"businessStep", "locationStep", "documentStep"}
        BY <1>1, <3>5 DEF Goes
      <3> QED
        BY <1>1, <3>4, <3>6 DEF AgreesFor
    <2> QED
      BY <2>1, <2>2
  <1>4. CASE Request(c)
    <2>1. CASE op'[c].at \in {"idle", "pin"}
      BY <2>1 DEF AgreesFor
    <2>2. CASE op'[c].at \notin {"idle", "pin"}
      <3>1. op'[c] # op[c]
        <4>1. CASE op'[c] = op[c]
          <5>1. op[c].at \notin {"idle", "pin"}
            BY <2>2, <4>1
          <5>2. op[c] = Idle
            BY <1>4, RequestFrame DEF Begins
          <5> QED
            BY <5>1, <5>2 DEF Idle
        <4> QED
          BY <4>1
      <3>2. ASSUME NEW o \in DOMAIN orgs PROVE ~CompletePrimarySite(c, o)
        <4>1. SUFFICES ASSUME CompletePrimarySite(c, o) PROVE FALSE
          OBVIOUS
        <4>2. op'[c] = [Idle EXCEPT !.at = "pin", !.org = o, !.site = PrimarySite(o)]
          BY <1>1, <4>1 DEF CompletePrimarySite, Goes
        <4> QED
          BY <2>2, <4>2 DEF Idle
      <3>3. \/ VerifyStart(c)
            \/ \E t \in tokens : \/ PatchProfile(c, t) \/ PatchBusiness(c, t) \/ PatchLocation(c, t)
                                \/ Submit(c, t) \/ (\E d \in scenario.papers : RegisterDocument(c, t, d))
        <4>1. ~Resume(c) /\ ~(\E t \in tokens : PatchPayment(c, t))
              /\ (\A o \in DOMAIN orgs : /\ ~ReviewOrganization(c, o)
                                       /\ (\A type : ~UpdateOrganization(c, o, type)))
          BY <3>1 DEF Resume, PatchPayment, ReviewOrganization, UpdateOrganization, vars
        <4> QED
          BY <1>4, <3>2, <4>1 DEF Request
      <3>4. UNCHANGED account /\ ~user.completed
        BY <3>3 DEF VerifyStart, PatchProfile, PatchBusiness, PatchLocation, Submit, OnboardsOrg, Onboards,
           RegisterDocument, Authorised
      <3>5. CASE \E t \in tokens : PatchBusiness(c, t)
        <4>1. PICK t \in tokens : PatchBusiness(c, t)
          BY <3>5
        <4>2. op'[c].org = Context(t)
          BY <1>1, <4>1 DEF PatchBusiness, Onboards, Goes, Idle
        <4> QED
          BY <3>4, <4>2, ContextFits DEF AgreesFor, IInv, account
      <3>6. CASE ~ \E t \in tokens : PatchBusiness(c, t)
        <4>1. \A stage, o : [Idle EXCEPT !.at = stage, !.org = o].at = stage
          BY DEF Idle
        <4>2. ASSUME VerifyStart(c) PROVE op'[c].at # "business"
          <5>1. op'[c] = [Idle EXCEPT !.at = IF user.status = "none" THEN "create" ELSE "verify",
                                      !.org = MembershipOrg]
            BY <1>1, <4>2 DEF VerifyStart, Goes
          <5> QED
            BY <4>1, <5>1
        <4>3. ASSUME NEW t \in tokens, PatchProfile(c, t) \/ Submit(c, t) PROVE op'[c].at # "business"
          <5>1. PICK stage \in {"profile", "submit"} : Onboards(c, stage, t)
            BY <4>3 DEF PatchProfile, Submit, OnboardsOrg
          <5>2. op'[c] = [Idle EXCEPT !.at = stage, !.org = Context(t)]
            BY <1>1, <5>1 DEF Onboards, Goes
          <5> QED
            BY <4>1, <5>2
        <4>4. ASSUME NEW t \in tokens, PatchLocation(c, t) PROVE op'[c].at # "business"
          BY <1>1, <4>4 DEF PatchLocation, Goes, Idle
        <4>5. ASSUME NEW t \in tokens, NEW d \in scenario.papers, RegisterDocument(c, t, d)
              PROVE  op'[c].at # "business"
          BY <1>1, <4>5 DEF RegisterDocument, Goes, Idle
        <4>6. op'[c].at # "business"
          BY <3>3, <3>6, <4>2, <4>3, <4>4, <4>5
        <4> QED
          BY <3>4, <4>6 DEF AgreesFor, account
      <3> QED
        BY <3>5, <3>6
    <2> QED
      BY <2>1, <2>2
  <1> QED
    BY <1>2, <1>3, <1>4

(* In serial order every step of a handler finds what it has checked.      *)
LEMMA AgreesStep == IInv /\ [Next]_vars => Agrees'
  <1> SUFFICES ASSUME IInv, [Next]_vars PROVE Agrees'
    OBVIOUS
  <1>1. CASE UNCHANGED vars
    BY <1>1 DEF IInv, Agrees, InSeries, vars, account
  <1>2. ASSUME NEW c \in Clerks, Request(c) \/ Continue(c) \/ Crash(c) PROVE Agrees'
    <2>1. scenario' = scenario /\ c \in scenario.clerks /\ (\A d \in Clerks : d # c => op'[d] = op[d])
      <3>1. CASE Request(c)
        BY <3>1, RequestFrame DEF IInv, OpFits, Begins, Goes
      <3>2. CASE Continue(c)
        <4>1. op[c].at # "idle" /\ scenario' = scenario /\ (\E r : Goes(c, r))
          BY <3>2, ContinueFrame
        <4>2. c \in scenario.clerks
          BY <4>1 DEF IInv, OpFits, Idle
        <4> QED
          BY <4>1, <4>2 DEF Goes, IInv, OpFits
      <3>3. CASE Crash(c)
        BY <3>3 DEF IInv, OpFits, Crash, Ends, Goes
      <3> QED
        BY <1>2, <3>1, <3>2, <3>3
    <2>2. ASSUME InSeries PROVE Len(orgs') <= 1
      <3>1. Len(orgs) \in Nat /\ Len(orgs') \in {Len(orgs), Len(orgs) + 1}
            /\ (Len(orgs') # Len(orgs) => \E d \in Clerks : op[d].at = "business" /\ op[d].org = 0)
        BY OrgsStep DEF Grows, IInv, RowsTyped
      <3>2. Len(orgs) <= 1 /\ (Len(orgs') # Len(orgs) => orgs = <<>>)
        BY <2>2, <3>1 DEF IInv, Agrees
      <3> QED
        BY <3>1, <3>2
    <2>3. ASSUME InSeries, NEW d \in Clerks PROVE AgreesFor(d)'
      <3>1. CASE d = c
        BY <1>2, <2>3, <3>1, OwnStep
      <3>2. CASE d # c
        <4>1. op[d] = Idle
          BY <2>1, <2>3, <3>2 DEF InSeries, IInv, OpFits
        <4> QED
          BY <2>1, <3>2, <4>1 DEF AgreesFor, Idle
      <3> QED
        BY <3>1, <3>2
    <2>4. InSeries' <=> InSeries
      BY <2>1 DEF InSeries
    <2> QED
      BY <1>2, <2>2, <2>3, <2>4, UserStep DEF Agrees, AgreesFor
  <1> QED
    BY <1>1, <1>2 DEF Next

-----------------------------------------------------------------------------
(* The invariant holds for good: handlers act for organisations that there *)
(* are, an application is that of the first, and whoever acts alone finds  *)
(* what it has checked.                                                    *)
THEOREM RegistrationInvariant == Spec => []IInv
  <1>1. IInv /\ [Next]_vars => IInv'
    <2>1. IInv /\ [Next]_vars => FirstOnly'
      BY OrgsStep DEF Grows
    <2> QED
      BY <2>1, RowsStep, PlacesStep, AgreesStep DEF IInv
  <1> QED
    BY InitHolds, <1>1, PTL DEF Spec

(* However requests overlap and wherever handlers die, submitRegistration  *)
(* files the application of the first organisation and of no other; and in *)
(* serial order patchBusiness creates no second one.                       *)
THEOREM FirstApplies == Spec => []OnlyFirstApplies
  <1>1. IInv => OnlyFirstApplies
    <2> SUFFICES ASSUME IInv PROVE OnlyFirstApplies
      OBVIOUS
    <2>1. \A o \in DOMAIN orgs : MembershipOrg = 1
      BY DEF IInv, RowsTyped, MembershipOrg
    <2> QED
      BY <2>1 DEF IInv, FirstOnly, Agrees, OnlyFirstApplies
  <1> QED
    BY RegistrationInvariant, <1>1, PTL

(* In serial order, wherever handlers die, registrationStep is SUBMITTED   *)
(* exactly for the clients whose application is submitted and who may sign *)
(* in.                                                                     *)
THEOREM StepsAgree == Spec => []StepAgrees
  <1>1. IInv => StepAgrees
    BY DEF IInv, Agrees, StepAgrees
  <1> QED
    BY RegistrationInvariant, <1>1, PTL

=============================================================================
