------------------------------ MODULE VoiceRights ------------------------------
(***************************************************************************)
(* The voice rights service (application/voice_rights_service.py) over the *)
(* rights model (domain/rights.py): profiles and consents that are put in  *)
(* place of older ones, and a ledger that only grows.  Language and        *)
(* territory of a request are one model value, its area; AnyArea is "*"    *)
(* and "WORLDWIDE".  A clock ticks between calls.                          *)
(***************************************************************************)
EXTENDS Integers, Sequences

CONSTANTS
    ProfileIds, ConsentIds,
    ProfileOffers,      \* the profiles that callers register
    ConsentOffers,      \* the consents that callers register
    Requests,           \* [project, area, use]
    AnyArea,
    MaxLedger, MaxClock,
    None

VARIABLES
    profiles,       \* _profiles
    consents,       \* _consents
    ledger,         \* _ledger
    clock

vars == <<profiles, consents, ledger, clock>>

\* What VoiceProfile and ConsentRecord are made of, and what they name.
RightsConstants ==
    /\ \A v \in ProfileOffers :
         /\ DOMAIN v = {"id", "project", "origin", "status", "areas", "consent"}
         /\ v.id \in ProfileIds /\ v.consent \in ConsentIds \cup {None}
    /\ \A c \in ConsentOffers : c.id \in ConsentIds
    /\ MaxClock \in Nat

Entry(kind, profile, consent, subject) ==
    [kind |-> kind, profile |-> profile, consent |-> consent, subject |-> subject, at |-> clock]

\* _append().  The subject stands for what the entry is about, whole.
Append_(kind, profile, consent, subject) ==
    /\ Len(ledger) < MaxLedger
    /\ ledger' = Append(ledger, Entry(kind, profile, consent, subject))

\* ConsentRecord._validate_lifecycle()
ValidConsent(c) ==
    /\ c.from # None /\ c.until # None => c.from < c.until
    /\ c.status = "granted" => c.uses # {} /\ c.areas # {}

\* VoiceProfile._require_license_or_consent()
ValidProfile(v) ==
    /\ v.origin # "synthetic_stock" => v.consent # None
    /\ v.areas # {}

\* Mutant: the end of the grant is not looked at.
PermitsForGood(c, request, at) ==
    /\ c.status = "granted"
    /\ c.from # None => c.from <= at
    /\ {AnyArea, request.area} \cap c.areas # {}
    /\ request.use \in c.uses

Permits(c, request, at) ==
    /\ c.status = "granted"
    /\ c.from # None => c.from <= at
    /\ c.until # None => at < c.until
    /\ {AnyArea, request.area} \cap c.areas # {}
    /\ request.use \in c.uses

\* assert_voice_use_authorized(); the consent is None when none is found.
UseAuthorized(v, c, request) ==
    /\ v.project = request.project
    /\ v.status = "active"
    /\ {AnyArea, request.area} \cap v.areas # {}
    /\ \/ v.origin = "synthetic_stock" /\ v.consent = None
       \/ /\ c # None
          /\ c.project \in {None, request.project}
          /\ Permits(c, request, clock)

Init ==
    /\ profiles = [v \in ProfileIds |-> None]
    /\ consents = [c \in ConsentIds |-> None]
    /\ ledger = <<>>
    /\ clock = 0

RegisterProfile(v) ==
    /\ ValidProfile(v)
    /\ profiles' = [profiles EXCEPT ![v.id] = v]
    /\ Append_("profile_registered", v.id, None, v)
    /\ UNCHANGED <<consents, clock>>

RegisterConsent(c) ==
    /\ ValidConsent(c)
    /\ consents' = [consents EXCEPT ![c.id] = c]
    /\ Append_("consent_registered", None, c.id, c)
    /\ UNCHANGED <<profiles, clock>>

ConsentOf(v) == IF v.consent = None THEN None ELSE consents[v.consent]

\* authorize(): both outcomes are entries of the ledger.
Authorize(id, request) ==
    /\ \/ /\ profiles[id] = None
          /\ Append_("voice_blocked", id, None, request)
       \/ /\ profiles[id] # None
          /\ ~UseAuthorized(profiles[id], ConsentOf(profiles[id]), request)
          /\ Append_("voice_blocked", id, profiles[id].consent, request)
       \/ /\ profiles[id] # None
          /\ UseAuthorized(profiles[id], ConsentOf(profiles[id]), request)
          /\ Append_("voice_authorized", id, profiles[id].consent, request)
    /\ UNCHANGED <<profiles, consents, clock>>

\* revoke_consent() leaves the consent record as it is.
RevokeConsent(c) ==
    /\ consents[c] # None
    /\ Append_("consent_revoked", None, c, consents[c])
    /\ UNCHANGED <<profiles, consents, clock>>

\* Mutant: the copy with the new status is not put back.
DisableCopy(v) ==
    /\ profiles[v] # None
    /\ Append_("profile_disabled", v, None, profiles[v])
    /\ UNCHANGED <<profiles, consents, clock>>

DisableProfile(v) ==
    /\ profiles[v] # None
    /\ profiles' = [profiles EXCEPT ![v].status = "disabled"]
    /\ Append_("profile_disabled", v, None, profiles[v])
    /\ UNCHANGED <<consents, clock>>

Tick ==
    /\ clock < MaxClock
    /\ clock' = clock + 1
    /\ UNCHANGED <<profiles, consents, ledger>>

Next ==
    \/ \E v \in ProfileOffers : RegisterProfile(v)
    \/ \E c \in ConsentOffers : RegisterConsent(c)
    \/ \E v \in ProfileIds, r \in Requests : Authorize(v, r)
    \/ \E c \in ConsentIds : RevokeConsent(c)
    \/ \E v \in ProfileIds : DisableProfile(v)
    \/ Tick

Spec == Init /\ [][Next]_vars

-----------------------------------------------------------------------------

Kinds == {"profile_registered", "profile_disabled", "consent_registered",
          "consent_revoked", "voice_authorized", "voice_blocked"}

TypeOK ==
    /\ \A id \in ProfileIds : profiles[id] # None =>
         ValidProfile(profiles[id]) /\ profiles[id].id = id
    /\ \A id \in ConsentIds : consents[id] # None =>
         ValidConsent(consents[id]) /\ consents[id].id = id
    /\ \A i \in DOMAIN ledger : ledger[i].kind \in Kinds
    /\ clock \in 0..MaxClock

\* Entry i is the last before n that is of one of the kinds and about the
\* same profile or consent.
LastBefore(i, n, kinds, field, id) ==
    /\ i < n /\ ledger[i].kind \in kinds /\ ledger[i][field] = id
    /\ \A j \in i + 1 .. n - 1 : ~(ledger[j].kind \in kinds /\ ledger[j][field] = id)

\* What a consent has to say for a use at that time, independent of the code.
GrantsUse(c, request, at) ==
    /\ c.status = "granted"
    /\ c.project \in {None, request.project}
    /\ c.from = None \/ c.from <= at
    /\ c.until = None \/ at < c.until
    /\ AnyArea \in c.areas \/ request.area \in c.areas
    /\ request.use \in c.uses

\* The ledger explains every use that was authorised: the profile was
\* registered for the project and the area and not disabled since; the voice is
\* a stock one that has no consent, or its consent was registered, and the last
\* registration grants that use, in that project and area, at that time.
\* (What was revoked since then is left to RevocationBlocks.)
LedgerExplainsUse ==
    \A n \in DOMAIN ledger : ledger[n].kind = "voice_authorized" =>
        \E i \in DOMAIN ledger :
            /\ LastBefore(i, n, {"profile_registered", "profile_disabled"},
                          "profile", ledger[n].profile)
            /\ ledger[i].kind = "profile_registered"
            /\ ledger[i].subject.status = "active"
            /\ ledger[i].subject.project = ledger[n].subject.project
            /\ {AnyArea, ledger[n].subject.area} \cap ledger[i].subject.areas # {}
            /\ ledger[i].subject.consent = ledger[n].consent
            /\ \/ ledger[i].subject.origin = "synthetic_stock" /\ ledger[n].consent = None
               \/ \E j \in DOMAIN ledger :
                    /\ LastBefore(j, n, {"consent_registered"}, "consent", ledger[n].consent)
                    /\ GrantsUse(ledger[j].subject, ledger[n].subject, ledger[n].at)

\* voice_rights_service.py l.55: "Revocation cascades to block further
\* synthesis immediately": after a consent is revoked no use is authorised
\* on it until somebody registers it anew.
RevocationBlocks ==
    \A n \in DOMAIN ledger : ledger[n].kind = "voice_authorized" /\ ledger[n].consent # None =>
        ~\E i \in DOMAIN ledger :
            /\ LastBefore(i, n, {"consent_registered", "consent_revoked"},
                          "consent", ledger[n].consent)
            /\ ledger[i].kind = "consent_revoked"
=============================================================================
