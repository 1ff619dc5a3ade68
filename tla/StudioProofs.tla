----------------------------- MODULE StudioProofs ------------------------------
(***************************************************************************)
(* What Studio promises of organisations, codes and slugs, for every number*)
(* of pages: lemmas on its initial state and its steps, for the modules    *)
(* that take its steps into theirs.                                        *)
(***************************************************************************)
EXTENDS Studio, FiniteSetTheorems, TLAPS

PageState ==
  [pc: {"idle", "orgless", "member", "taken", "free", "codeless", "done", "failed"},
   org: Page \cup {NoOrg}]

(* Whoever found something missing is alone with it, and it is still        *)
(* missing, unless two pages found it missing together.                     *)
Alone(what) ==
  what \notin crossed => \A r, s \in Page : page[r].pc = what /\ page[s].pc = what => r = s

OneOrg ==
  "orgless" \notin crossed
    => /\ \A r \in Page : page[r].pc = "orgless" => orgs = {}
       /\ \A o, p \in orgs : o = p

OneCode ==
  "codeless" \notin crossed
    => /\ \A r \in Page : page[r].pc = "codeless" => codes = <<>>
       /\ Len(codes) <= 1

(* A slug that was found free is free, and a suffixed one belongs to the    *)
(* request that made it up.                                                 *)
SlugsFree ==
  /\ \A o \in Page, r \in Page : <<o, r>> \in events => page[r].pc = "done"
  /\ "free" \notin crossed
       => /\ \A r \in Page : page[r].pc = "free" => <<page[r].org, Plain>> \notin events
          /\ \A r \in Page : page[r].pc # "failed"

Members == \A r \in Page : page[r].pc \in {"member", "free", "taken"} => page[r].org \in orgs

StudioInv ==
  /\ StudioTypeOK /\ Members
  /\ Alone("orgless") /\ Alone("codeless") /\ Alone("free")
  /\ OneOrg /\ OneCode /\ SlugsFree

LEMMA StudioInitInv == StudioInit => StudioInv
<1> SUFFICES ASSUME StudioInit PROVE StudioInv
  OBVIOUS
<1>1. StudioTypeOK
  <2>1. [pc |-> "idle", org |-> NoOrg] \in PageState
    BY DEF PageState
  <2>2. page \in [Page -> PageState]
    BY <2>1 DEF StudioInit
  <2>3. codes \in Seq(Page)
    BY SMT DEF StudioInit
  <2>4. orgs \subseteq Page /\ deleted \in BOOLEAN
    BY DEF StudioInit
  <2>5. events \subseteq orgs \X (Page \cup {Plain}) /\ crossed \subseteq {"orgless", "codeless", "free"}
    BY DEF StudioInit
  <2> QED BY <2>2, <2>3, <2>4, <2>5 DEF StudioTypeOK, PageState
<1>2. Members /\ Alone("orgless") /\ Alone("codeless") /\ Alone("free")
  BY DEF StudioInit, Members, Alone
<1>3. OneOrg /\ OneCode /\ SlugsFree
  BY DEF StudioInit, OneOrg, OneCode, SlugsFree
<1> QED BY <1>1, <1>2, <1>3 DEF StudioInv

--------------------------------------------------------------------------------
LEMMA Moving ==
  ASSUME StudioTypeOK, NEW r \in Page,
         NEW pc \in {"orgless", "member", "taken", "free", "codeless", "done", "failed"},
         page' = [page EXCEPT ![r].pc = pc]
  PROVE  /\ page' \in [Page -> PageState]
         /\ \A s \in Page \ {r} : page'[s] = page[s]
         /\ page'[r].pc = pc /\ page'[r].org = page[r].org
  BY DEF StudioTypeOK, PageState
(* A look that finds nothing: who is there already is noted.                *)
LEMMA Looking ==
  ASSUME StudioInv, NEW r \in Page, NEW from \in {"idle", "member"},
         NEW what \in {"orgless", "codeless", "free"}, Missing(r, from, what)
  PROVE  /\ page[r].pc = from /\ page' \in [Page -> PageState]
         /\ \A s \in Page \ {r} : page'[s] = page[s]
         /\ page'[r].pc = what /\ page'[r].org = page[r].org
         /\ crossed \subseteq crossed' /\ crossed' \subseteq crossed \cup {what}
         /\ what \notin crossed' => \A s \in Page \ {r} : page'[s].pc # what
<1>1. page' = [page EXCEPT ![r].pc = what] /\ page[r].pc = from
  BY DEF Missing, Goto
<1>2. /\ page' \in [Page -> PageState]
      /\ \A s \in Page \ {r} : page'[s] = page[s]
      /\ page'[r].pc = what /\ page'[r].org = page[r].org
  BY <1>1, Moving DEF StudioInv
<1>3. CASE \E s \in Page : page[s].pc = what
  BY <1>1, <1>2, <1>3 DEF Missing
<1>4. CASE ~\E s \in Page : page[s].pc = what
  BY <1>1, <1>2, <1>4 DEF Missing
<1> QED BY <1>3, <1>4

(* Looking leaves everybody alone who was, or has noted the contrary.       *)
LEMMA LookingAlone ==
  ASSUME StudioInv, NEW r \in Page, NEW from \in {"idle", "member"},
         NEW what \in {"orgless", "codeless", "free"}, Missing(r, from, what)
  PROVE  (Alone("orgless") /\ Alone("codeless") /\ Alone("free"))'
  BY Looking DEF StudioInv, Alone

(* Any other step of a page leaves nobody together who was not before.      *)
LEMMA LeavingAlone ==
  ASSUME StudioInv, NEW r \in Page, crossed \subseteq crossed',
         \A s \in Page \ {r} : page'[s] = page[s],
         page'[r].pc \notin {"orgless", "codeless", "free"}
  PROVE  (Alone("orgless") /\ Alone("codeless") /\ Alone("free"))'
  BY DEF StudioInv, Alone

LEMMA FindOrgInv ==
  ASSUME StudioInv, NEW r \in Page, FindOrg(r)
  PROVE  StudioInv'
<1>1. UNCHANGED <<orgs, events, codes, deleted>>
  BY DEF FindOrg
<1>2. CASE orgs = {} /\ Missing(r, "idle", "orgless")
  <2>1. StudioTypeOK'
    BY <1>1, <1>2, Looking DEF StudioInv, StudioTypeOK, PageState
  <2>2. Members' /\ OneOrg' /\ OneCode' /\ SlugsFree'
    BY <1>1, <1>2, Looking DEF StudioInv, Members, OneOrg, OneCode, SlugsFree
  <2> QED BY <1>2, <2>1, <2>2, LookingAlone DEF StudioInv
<1>3. CASE \E o \in orgs : /\ page[r].pc = "idle"
                           /\ page' = [page EXCEPT ![r] = [pc |-> "member", org |-> o]]
                           /\ UNCHANGED crossed
  <2>1. PICK o \in orgs : /\ page[r].pc = "idle" /\ UNCHANGED crossed
                          /\ page' = [page EXCEPT ![r] = [pc |-> "member", org |-> o]]
    BY <1>3
  <2>2. /\ page' \in [Page -> PageState] /\ page'[r] = [pc |-> "member", org |-> o]
        /\ \A s \in Page \ {r} : page'[s] = page[s]
    BY <2>1 DEF StudioInv, StudioTypeOK, PageState
  <2>3. StudioTypeOK'
    BY <1>1, <2>1, <2>2 DEF StudioInv, StudioTypeOK, PageState
  <2>4. Members' /\ OneOrg' /\ OneCode' /\ SlugsFree'
    BY <1>1, <2>1, <2>2 DEF StudioInv, Members, OneOrg, OneCode, SlugsFree
  <2> QED BY <2>1, <2>2, <2>3, <2>4, LeavingAlone DEF StudioInv
<1> QED BY <1>2, <1>3 DEF FindOrg

LEMMA MakeOrgInv ==
  ASSUME StudioInv, NEW r \in Page, MakeOrg(r)
  PROVE  StudioInv'
<1>1. /\ UNCHANGED <<events, codes, deleted, crossed>> /\ orgs' = orgs \cup {r}
      /\ page[r].pc = "orgless"
      /\ page' \in [Page -> PageState] /\ page'[r] = [pc |-> "member", org |-> r]
      /\ \A s \in Page \ {r} : page'[s] = page[s]
  BY DEF StudioInv, StudioTypeOK, PageState, MakeOrg
<1>2. StudioTypeOK'
  BY <1>1 DEF StudioInv, StudioTypeOK, PageState
<1>3. OneOrg'
  BY <1>1 DEF StudioInv, OneOrg, Alone
<1>4. Members' /\ OneCode' /\ SlugsFree'
  BY <1>1 DEF StudioInv, Members, OneCode, SlugsFree
<1> QED BY <1>1, <1>2, <1>3, <1>4, LeavingAlone DEF StudioInv

LEMMA FindSlugInv ==
  ASSUME StudioInv, NEW r \in Page, FindSlug(r)
  PROVE  StudioInv'
<1>1. UNCHANGED <<orgs, events, codes, deleted>>
  BY DEF FindSlug
<1>2. CASE <<page[r].org, Plain>> \in events /\ Goto(r, "member", "taken") /\ UNCHANGED crossed
  <2>1. /\ page[r].pc = "member" /\ page' \in [Page -> PageState]
        /\ \A s \in Page \ {r} : page'[s] = page[s]
        /\ page'[r].pc = "taken" /\ page'[r].org = page[r].org
    BY <1>2, Moving DEF StudioInv, Goto
  <2>2. StudioTypeOK'
    BY <1>1, <1>2, <2>1 DEF StudioInv, StudioTypeOK, PageState
  <2>3. Members' /\ OneOrg' /\ OneCode' /\ SlugsFree'
    BY <1>1, <1>2, <2>1 DEF StudioInv, Members, OneOrg, OneCode, SlugsFree
  <2> QED BY <1>2, <2>1, <2>2, <2>3, LeavingAlone DEF StudioInv
<1>3. CASE <<page[r].org, Plain>> \notin events /\ Missing(r, "member", "free")
  <2>1. StudioTypeOK'
    BY <1>1, <1>3, Looking DEF StudioInv, StudioTypeOK, PageState
  <2>2. Members' /\ OneOrg' /\ OneCode'
    BY <1>1, <1>3, Looking DEF StudioInv, Members, OneOrg, OneCode
  <2>3. SlugsFree'
    BY <1>1, <1>3, Looking DEF StudioInv, SlugsFree
  <2> QED BY <1>3, <2>1, <2>2, <2>3, LookingAlone DEF StudioInv
<1> QED BY <1>2, <1>3 DEF FindSlug

LEMMA InsertEventInv ==
  ASSUME StudioInv, NEW r \in Page, InsertEvent(r)
  PROVE  StudioInv'
<1> DEFINE row == <<page[r].org, IF page[r].pc = "free" THEN Plain ELSE r>>
<1>1. /\ UNCHANGED <<orgs, codes, deleted, crossed>>
      /\ page[r].pc \in {"free", "taken"} /\ page[r].org \in orgs /\ page[r].org \in Page
  BY DEF StudioInv, StudioTypeOK, Members, InsertEvent
<1>2. PICK pc \in {"failed", "done"} :
        /\ page' = [page EXCEPT ![r].pc = pc]
        /\ pc = "failed" => row \in events /\ events' = events
        /\ pc = "done" => row \notin events /\ events' = events \cup {row}
  BY DEF InsertEvent, Goto
<1>3. /\ page' \in [Page -> PageState] /\ \A s \in Page \ {r} : page'[s] = page[s]
      /\ page'[r].pc = pc /\ page'[r].org = page[r].org
  BY <1>2, Moving DEF StudioInv
<1>4. StudioTypeOK'
  BY <1>1, <1>2, <1>3 DEF StudioInv, StudioTypeOK, PageState
<1>5. Members' /\ OneOrg' /\ OneCode'
  BY <1>1, <1>3 DEF StudioInv, Members, OneOrg, OneCode
<1>6. SlugsFree'
  <2>1. page[r].pc = "free" => row = <<page[r].org, Plain>>
    OBVIOUS
  <2>2. page[r].pc = "taken" => row = <<page[r].org, r>>
    OBVIOUS
  <2> HIDE DEF row
  <2>3. CASE pc = "failed"
    BY <1>1, <1>2, <1>3, <2>1, <2>2, <2>3 DEF StudioInv, SlugsFree
  <2>4. CASE pc = "done"
    BY <1>1, <1>2, <1>3, <2>1, <2>2, <2>4, NoOrgAssumption DEF StudioInv, SlugsFree, Alone
  <2> QED BY <2>3, <2>4
<1> QED BY <1>1, <1>3, <1>4, <1>5, <1>6, LeavingAlone DEF StudioInv

LEMMA FindCodeInv ==
  ASSUME StudioInv, NEW r \in Page, FindCode(r)
  PROVE  StudioInv'
<1>1. UNCHANGED <<orgs, events, codes, deleted>>
  BY DEF FindCode
<1>2. CASE codes = <<>> /\ Missing(r, "idle", "codeless")
  <2>1. StudioTypeOK'
    BY <1>1, <1>2, Looking DEF StudioInv, StudioTypeOK, PageState
  <2>2. Members' /\ OneOrg' /\ OneCode' /\ SlugsFree'
    BY <1>1, <1>2, Looking DEF StudioInv, Members, OneOrg, OneCode, SlugsFree
  <2> QED BY <1>2, <2>1, <2>2, LookingAlone DEF StudioInv
<1>3. CASE Goto(r, "idle", "done") /\ UNCHANGED crossed
  <2>1. /\ page[r].pc = "idle" /\ page' \in [Page -> PageState]
        /\ \A s \in Page \ {r} : page'[s] = page[s]
        /\ page'[r].pc = "done" /\ page'[r].org = page[r].org
    BY <1>3, Moving DEF StudioInv, Goto
  <2>2. StudioTypeOK'
    BY <1>1, <1>3, <2>1 DEF StudioInv, StudioTypeOK, PageState
  <2>3. Members' /\ OneOrg' /\ OneCode' /\ SlugsFree'
    BY <1>1, <1>3, <2>1 DEF StudioInv, Members, OneOrg, OneCode, SlugsFree
  <2> QED BY <1>3, <2>1, <2>2, <2>3, LeavingAlone DEF StudioInv
<1> QED BY <1>2, <1>3 DEF FindCode

LEMMA MakeCodeInv ==
  ASSUME StudioInv, NEW r \in Page, MakeCode(r)
  PROVE  StudioInv'
<1>1. /\ UNCHANGED <<orgs, events, deleted, crossed>> /\ codes' = Append(codes, r)
      /\ page[r].pc = "codeless" /\ page' \in [Page -> PageState]
      /\ \A s \in Page \ {r} : page'[s] = page[s]
      /\ page'[r].pc = "done" /\ page'[r].org = page[r].org
  BY Moving DEF StudioInv, MakeCode, Goto
<1>2. codes' \in Seq(Page) /\ Len(codes') = Len(codes) + 1
  BY <1>1 DEF StudioInv, StudioTypeOK
<1>3. StudioTypeOK'
  BY <1>1, <1>2 DEF StudioInv, StudioTypeOK, PageState
<1>4. OneCode'
  BY <1>1, <1>2 DEF StudioInv, StudioTypeOK, OneCode, Alone
<1>5. Members' /\ OneOrg' /\ SlugsFree'
  BY <1>1 DEF StudioInv, Members, OneOrg, SlugsFree
<1> QED BY <1>1, <1>3, <1>4, <1>5, LeavingAlone DEF StudioInv

LEMMA StudioStutter ==
  ASSUME StudioInv, UNCHANGED <<orgs, events, codes, page, crossed>>, deleted' \in BOOLEAN
  PROVE  StudioInv'
<1>1. StudioTypeOK'
  BY DEF StudioInv, StudioTypeOK
<1>2. (Members /\ Alone("orgless") /\ Alone("codeless") /\ Alone("free"))'
  BY DEF StudioInv, Members, Alone
<1>3. (OneOrg /\ OneCode /\ SlugsFree)'
  BY DEF StudioInv, OneOrg, OneCode, SlugsFree
<1> QED BY <1>1, <1>2, <1>3 DEF StudioInv

(* Every step of the set-up keeps the invariant.                            *)
LEMMA StudioInductive == StudioInv /\ [StudioNext]_studioVars => StudioInv'
<1> SUFFICES ASSUME StudioInv, [StudioNext]_studioVars PROVE StudioInv'
  OBVIOUS
<1>1. ASSUME NEW r \in Page,
             \/ FindOrg(r) \/ MakeOrg(r) \/ FindSlug(r) \/ InsertEvent(r)
             \/ FindCode(r) \/ MakeCode(r)
      PROVE  StudioInv'
  BY <1>1, FindOrgInv, MakeOrgInv, FindSlugInv, InsertEventInv, FindCodeInv, MakeCodeInv
<1>2. CASE DeleteEvent
  BY <1>2, StudioStutter DEF DeleteEvent
<1>3. CASE UNCHANGED studioVars
  BY <1>3, StudioStutter DEF studioVars, StudioInv, StudioTypeOK
<1> QED BY <1>1, <1>2, <1>3 DEF StudioNext

(* One organisation is at most a singleton, so the invariant gives what is  *)
(* promised.                                                                *)
LEMMA OneEach == StudioInv => OneStudioOneCode
<1> SUFFICES ASSUME StudioInv PROVE OneStudioOneCode
  OBVIOUS
<1>1. ASSUME "orgless" \notin crossed
      PROVE  ~(Cardinality(orgs) > 1)
  <2>1. \A o, p \in orgs : o = p
    BY <1>1 DEF StudioInv, OneOrg
  <2>2. CASE orgs = {}
    BY <2>2, FS_EmptySet
  <2>3. CASE orgs # {}
    <3>1. PICK o \in orgs : TRUE
      BY <2>3
    <3>2. orgs = {o}
      BY <2>1, <3>1
    <3> QED BY <3>2, FS_Singleton
  <2> QED BY <2>2, <2>3
<1>2. ASSUME "codeless" \notin crossed
      PROVE  ~(Len(codes) > 1)
  BY <1>2 DEF StudioInv, StudioTypeOK, OneCode
<1>3. (\E r \in Page : page[r].pc = "failed") => "free" \in crossed
  BY DEF StudioInv, SlugsFree
<1> QED BY <1>1, <1>2, <1>3 DEF OneStudioOneCode
================================================================================
