------------------------ MODULE OutpostVerification ------------------------
(***************************************************************************)
(* The verification of a deployment before a client is made: the suites of *)
(* producer bindings whose interfaces the profile names are tried in the   *)
(* order of their registration, each against the code on the chain, which  *)
(* is read contract by contract, in parallel, in three requests each:      *)
(* whether there is code, which implementation is behind it, and the       *)
(* implementation's code.  An upgrade or a failing request may come        *)
(* between.  On Solana they are the program, its ProgramData and the bytes *)
(* of that, which an upgrade replaces in place.                            *)
(*                                                                         *)
(* A template is what is left of code without its deployment's own bytes;  *)
(* an implementation keeps its code, an upgrade puts another one there.    *)
(***************************************************************************)
EXTENDS Integers, Sequences, FiniteSets, Lists

CONSTANTS
    Contracts,
    Implementations,        \* contracts' implementations that may be live
    Template,               \* [Implementations -> templates], their code
    Suites,                 \* registered suites: <<[interfaces, templates]>>
    Profiles,               \* [family, interfaces, implementation], per contract
    MaxUpgrades, MaxFailures,
    Nothing

ASSUME OutpostVerificationAssumption ==
    /\ MaxUpgrades \in Nat /\ MaxFailures \in Nat /\ Nothing \notin Implementations
    /\ \A p \in Profiles : p.implementation \in [Contracts -> Implementations]
    /\ Suites \in Seq(Range(Suites))
    /\ \A i \in DOMAIN Suites : DOMAIN Suites[i].templates = Contracts

VARIABLES
    profile,
    live,           \* [Contracts -> Implementations or Nothing], on the chain
    candidates,     \* suites that are left to try, the first one being tried
    reader,         \* [Contracts -> step], of the suite being tried
    verdict,        \* "none", "verified" or "refused"
    upgrades, failures

verification == <<profile, live, candidates, reader, verdict, upgrades, failures>>

\* The suites whose interfaces are those of the profile.
Candidates(p) == Selected(Suites, {s \in Range(Suites) : s.interfaces = p.interfaces})

Unread == [c \in Contracts |-> "proxy"]

Suite == Head(candidates)

VInit ==
    /\ profile \in Profiles
    /\ live \in {[c \in Contracts |-> Nothing]} \cup [Contracts -> Implementations]
    /\ candidates = Candidates(profile)
    /\ reader = Unread
    /\ verdict = "none"
    /\ upgrades = 0 /\ failures = 0

\* The first request of a suite that fails settles it: the next one is tried.
Mismatch ==
    IF Len(candidates) > 1
    THEN candidates' = Tail(candidates) /\ reader' = Unread /\ UNCHANGED verdict
    ELSE verdict' = "refused" /\ UNCHANGED <<candidates, reader>>

Answered(c, step) == reader' = [reader EXCEPT ![c] = step] /\ UNCHANGED candidates

\* Mutant: neither the implementation nor the bytes' own digest is compared.
MatchesCodeOnly(c, step) ==
    CASE step = "proxy" -> live[c] # Nothing
      [] step = "slot" -> TRUE
      [] step = "code" -> Template[profile.implementation[c]] = Suite.templates[c]

Matches(c, step) ==
    LET named == live[c] = profile.implementation[c]
    IN  CASE step = "proxy" -> live[c] # Nothing
          [] step = "slot" -> profile.family = "solana" \/ named
          [] step = "code" -> /\ profile.family = "solana" => named
                              /\ Template[profile.implementation[c]] = Suite.templates[c]

NextStep(step) == CASE step = "proxy" -> "slot" [] step = "slot" -> "code" [] step = "code" -> "done"

Answer(c) ==
    /\ verdict = "none" /\ candidates # <<>> /\ reader[c] # "done"
    /\ IF ~Matches(c, reader[c]) THEN Mismatch
       ELSE /\ Answered(c, NextStep(reader[c]))
            /\ verdict' = IF \A d \in Contracts : reader'[d] = "done" THEN "verified" ELSE "none"
    /\ UNCHANGED <<profile, live, upgrades, failures>>

\* A request fails: for the code, that is a mismatch like any other.
FailRequest ==
    /\ verdict = "none" /\ candidates # <<>> /\ failures < MaxFailures
    /\ Mismatch
    /\ failures' = failures + 1
    /\ UNCHANGED <<profile, live, upgrades>>

\* No suite has the interfaces of the profile.
NoSuite ==
    /\ verdict = "none" /\ candidates = <<>>
    /\ verdict' = "refused"
    /\ UNCHANGED <<profile, live, candidates, reader, upgrades, failures>>

Upgrade(c, implementation) ==
    /\ verdict = "none" /\ upgrades < MaxUpgrades
    /\ live[c] \notin {Nothing, implementation}
    /\ live' = [live EXCEPT ![c] = implementation]
    /\ upgrades' = upgrades + 1
    /\ UNCHANGED <<profile, candidates, reader, verdict, failures>>

VNext ==
    \/ \E c \in Contracts : Answer(c) \/ (\E i \in Implementations : Upgrade(c, i))
    \/ FailRequest \/ NoSuite

VSpec == VInit /\ [][VNext]_verification

---------------------------------------------------------------------------
LiveFor(s) == \A c \in Contracts : live[c] = profile.implementation[c] /\ Template[live[c]] = s.templates[c]

(***************************************************************************)
(* The suite a client is bound to is one whose interfaces the profile      *)
(* names and whose templates are the code of the implementations it names; *)
(* without an upgrade meanwhile they are what is live, however many        *)
(* requests failed and suites were tried before; and without a failing     *)
(* request a deployment is refused only if no suite is live.               *)
(***************************************************************************)
VerifiedSuiteIsLive ==
    /\ verdict = "verified" =>
           /\ Suite.interfaces = profile.interfaces
           /\ \A c \in Contracts : Template[profile.implementation[c]] = Suite.templates[c]
           /\ upgrades = 0 => LiveFor(Suite)
    /\ verdict = "refused" /\ upgrades = 0 /\ failures = 0 =>
           \A i \in DOMAIN Candidates(profile) : ~LiveFor(Candidates(profile)[i])
=============================================================================
