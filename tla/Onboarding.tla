----------------------------- MODULE Onboarding -----------------------------
(***************************************************************************)
(* Roles and the steps of a stylist's onboarding.  A call reads the user   *)
(* and the profile and saves them later.  mongoose replaces roles as a     *)
(* whole under the version it read, and a push raises the version; an      *)
(* $addToSet of another service does neither.                              *)
(***************************************************************************)
EXTENDS Integers, FiniteSets, Sequences

CONSTANTS
    Members,     \* users
    Forms,       \* calls under way
    RoleSets,     \* the sets of roles asked for
    Answered     \* the steps that are answered by a form of their own

Roles == {"customer", "owner", "stylist"}
Steps == <<"role", "personal", "location", "services", "workplace", "workingHours", "media", "completed">>
Last == Len(Steps)
IndexOf(s) == CHOOSE i \in 1 .. Len(Steps) : Steps[i] = s

ASSUME OnboardingAssumption ==
    /\ RoleSets \subseteq SUBSET Roles
    /\ Answered \subseteq {"personal", "location", "services", "workplace", "workingHours"}

VARIABLES
    roles,       \* User.roles, without admin, which is never lost or given here
    profile,     \* the StylistProfile: onboardingStep and status; step 0 when there is none
    owned,       \* users who own a salon
    form,        \* what each call is at
    mixed        \* users for whom two of these calls overlapped, or one was cut off

onboardingVars == <<roles, profile, owned, form, mixed>>

NoProfile == [step |-> 0, active |-> FALSE]
Profiles == [step : 1 .. Last, active : BOOLEAN] \cup {NoProfile}
Blank == [at |-> "blank"]
FormCalls ==
    [at : {"roles", "counted", "save", "reset", "ensure", "finish", "activate"}, who : Members, seen : SUBSET Roles,
     want : SUBSET Roles, swap : BOOLEAN, fresh : BOOLEAN, step : 0 .. Last, read : Profiles]
    \cup [at : {"member"}, who : Members]

OnboardingTypeOK ==
    /\ roles \in [Members -> SUBSET Roles]
    /\ profile \in [Members -> Profiles]
    /\ owned \subseteq Members
    /\ form \in [Forms -> FormCalls \cup {Blank}]
    /\ mixed \subseteq Members

OnboardingInit ==
    /\ roles = [u \in Members |-> {}]
    /\ profile = [u \in Members |-> NoProfile]
    /\ owned = {}
    /\ form = [f \in Forms |-> Blank]
    /\ mixed = {}

Busy(u) == \E f \in Forms : form[f] # Blank /\ form[f].who = u
Start(f, u, what) ==
    /\ form[f] = Blank
    /\ form' = [form EXCEPT ![f] = what]
    /\ mixed' = IF Busy(u) THEN mixed \cup {u} ELSE mixed
Finish(f) == form' = [form EXCEPT ![f] = Blank]
Form(at, u, seen, want, swap, step) ==
    [at |-> at, who |-> u, seen |-> seen, want |-> want, swap |-> swap, fresh |-> TRUE, step |-> step, read |-> NoProfile]

\* the calls whose document is no longer the one they read
Stale(u, f, ats) == [g \in Forms |-> IF g # f /\ form[g].at \in ats /\ form[g].who = u
                                     THEN [form[g] EXCEPT !.fresh = FALSE] ELSE form[g]]
Choosing == {"roles", "counted"}
Answering == {"finish", "activate"}

-----------------------------------------------------------------------------
(* Choosing roles *)

SetRoles(f, u, want, swap) ==
    /\ Start(f, u, Form("roles", u, roles[u], want, swap, 0))
    /\ UNCHANGED <<roles, profile, owned>>

\* a swap that drops every role the user may choose
SwapAll(f) ==
    LET u == form[f].who IN
    /\ form[f].at = "roles"
    /\ form' = [form EXCEPT ![f].at = "counted"]
    /\ UNCHANGED <<roles, profile, owned, mixed>>

\* owner and stylist stay while something stands behind them; step 1: a draft
CheckBacking(f) ==
    LET call == form[f]
        u == call.who
        kept == IF call.swap
                THEN (call.seen \cap {r \in {"owner", "stylist"} :
                                        IF r = "owner" THEN u \in owned ELSE profile[u].active})
                ELSE call.seen
    IN  /\ call.at = "roles"
        /\ form' = [form EXCEPT ![f].at = "counted", ![f].want = @ \cup kept]
        /\ UNCHANGED <<roles, profile, owned, mixed>>

\* a replacement fails on another version; without one the missing roles are pushed
SaveRoles(f) ==
    LET call == form[f]
        u == call.who
        changed == call.want # call.seen
        refused == call.swap /\ changed /\ ~call.fresh
        next == CASE "stylist" \in call.seen \ call.want -> "reset"
                  [] "stylist" \in call.want -> "ensure"
                  [] OTHER -> "blank"
    IN  /\ call.at = "counted"
        /\ IF refused
           THEN Finish(f) /\ UNCHANGED roles
           ELSE /\ roles' = [roles EXCEPT ![u] = IF ~changed THEN @ ELSE IF call.swap THEN call.want
                                                 ELSE @ \cup call.want]
                /\ form' = [IF changed THEN Stale(u, f, Choosing) ELSE form EXCEPT ![f] =
                              IF next = "blank" THEN Blank ELSE Form(next, u, {}, {}, FALSE, 1)]
        /\ UNCHANGED <<profile, owned, mixed>>

\* "the profile here is always a draft": the profile and what hangs on it go
ResetStylistDraft(f) ==
    /\ form[f].at = "reset"
    /\ profile' = [profile EXCEPT ![form[f].who] = NoProfile]
    /\ form' = [Stale(form[f].who, f, Answering) EXCEPT ![f] = Blank]
    /\ UNCHANGED <<roles, owned, mixed>>

-----------------------------------------------------------------------------
(* Steps *)

\* ensureStylistProfile makes the profile, and reads it
EnsureStylistProfile(f) ==
    LET u == form[f].who
        now == IF profile[u] = NoProfile THEN [step |-> 1, active |-> FALSE] ELSE profile[u]
    IN  /\ form[f].at = "ensure"
        /\ profile' = [profile EXCEPT ![u] = now]
        /\ form' = [form EXCEPT ![f].at = IF form[f].step = Last THEN "activate" ELSE "finish", ![f].read = now]
        /\ UNCHANGED <<roles, owned, mixed>>

\* a step of the form is answered
CompleteStep(f, u, s) ==
    /\ "stylist" \in roles[u]
    /\ Start(f, u, Form("ensure", u, {}, {}, FALSE, IndexOf(s)))
    /\ UNCHANGED <<roles, profile, owned>>

\* the step after the one answered, if the profile as it was read is before it
AdvanceStep(f) ==
    LET u == form[f].who IN
    /\ form[f].at = "finish"
    /\ profile' = IF form[f].fresh /\ profile[u] # NoProfile /\ form[f].step + 1 > form[f].read.step
                  THEN [profile EXCEPT ![u].step = form[f].step + 1] ELSE profile
    /\ Finish(f)
    /\ UNCHANGED <<roles, owned, mixed>>

\* any picture completes the onboarding
SaveStylistMedia(f, u) ==
    /\ "stylist" \in roles[u]
    /\ Start(f, u, Form("ensure", u, {}, {}, FALSE, Last))
    /\ UNCHANGED <<roles, profile, owned>>

ActivateProfile(f) ==
    LET u == form[f].who IN
    /\ form[f].at = "activate"
    /\ profile' = IF form[f].fresh /\ profile[u] # NoProfile
                  THEN [profile EXCEPT ![u] = [step |-> IF form[f].read.step = Last THEN @.step ELSE Last,
                                                 active |-> @.active \/ ~form[f].read.active]]
                  ELSE profile
    /\ Finish(f)
    /\ UNCHANGED <<roles, owned, mixed>>

AdminSetStylistStatus(u, active) ==
    /\ profile[u] # NoProfile
    /\ profile' = [profile EXCEPT ![u].active = active]
    /\ mixed' = IF Busy(u) THEN mixed \cup {u} ELSE mixed
    /\ UNCHANGED <<roles, owned, form>>

-----------------------------------------------------------------------------
(* Salons, elsewhere *)

\* acceptInvite pushes the role and claims the salon after it; createOwnSalon
\* creates the salon and adds the role after it
GrantOwner(f, u) ==
    /\ form[f] = Blank
    /\ mixed' = IF Busy(u) THEN mixed \cup {u} ELSE mixed
    /\ \/ /\ roles' = [roles EXCEPT ![u] = @ \cup {"owner"}]
          /\ form' = [Stale(u, f, Choosing) EXCEPT ![f] = [at |-> "member", who |-> u]]
          /\ UNCHANGED owned
       \/ /\ owned' = owned \cup {u}
          /\ form' = [form EXCEPT ![f] = [at |-> "member", who |-> u]]
          /\ UNCHANGED roles
    /\ UNCHANGED profile

BecomeOwner(f) ==
    LET u == form[f].who IN
    /\ form[f].at = "member"
    /\ owned' = owned \cup {u}
    /\ roles' = [roles EXCEPT ![u] = IF u \in owned THEN @ \cup {"owner"} ELSE @]
    /\ Finish(f)
    /\ UNCHANGED <<profile, mixed>>

CutShort(f) ==
    /\ form[f] # Blank
    /\ mixed' = mixed \cup {form[f].who}
    /\ Finish(f)
    /\ UNCHANGED <<roles, profile, owned>>

OnboardingNext ==
    \/ \E u \in Members, active \in BOOLEAN : AdminSetStylistStatus(u, active)
    \/ \E f \in Forms :
          \/ \E u \in Members :
                \/ \E want \in RoleSets, swap \in BOOLEAN : SetRoles(f, u, want, swap)
                \/ \E s \in Answered : CompleteStep(f, u, s)
                \/ SaveStylistMedia(f, u) \/ GrantOwner(f, u)
          \/ CheckBacking(f) \/ SaveRoles(f) \/ ResetStylistDraft(f) \/ EnsureStylistProfile(f)
          \/ AdvanceStep(f) \/ ActivateProfile(f) \/ BecomeOwner(f) \/ CutShort(f)

OnboardingSpec == OnboardingInit /\ [][OnboardingNext]_onboardingVars

-----------------------------------------------------------------------------
(* Properties *)

(* "'owner' only without an owned salon; 'stylist' only while still a draft": *)
(* whatever roles are chosen, who owns a salon keeps the role for it, and a   *)
(* stylist, and nobody else, has a profile.                                   *)
RolesKeepTheirBacking ==
    \A u \in Members \ mixed : ~Busy(u) =>
        /\ u \in owned => "owner" \in roles[u]
        /\ profile[u] # NoProfile <=> "stylist" \in roles[u]
=============================================================================
