---------------------------- MODULE DeployParams ----------------------------
(***************************************************************************)
(* What Deployment.tla and DeployLock.tla are about: who deploys what, in  *)
(* which order, and how often.                                             *)
(***************************************************************************)
EXTENDS Naturals

CONSTANTS
    Op,             \* processes that run the command
    Obj,            \* objects, by path, VDOM and name
    Section,        \* [Obj -> 1..Sections], a place in DEPLOY_ORDER
    Sections,
    Needs,          \* [Obj -> SUBSET Obj], depends_on
    Home,           \* objects in the VDOM the client was opened with
    Version,        \* outputs of transform
    Content,        \* [Version -> SUBSET Obj]
    None, Torn,
    MaxRuns, MaxMeddling, MaxChains     \* bounds

Servers == {o \in Obj : Section[o] = Sections}      \* virtual servers come last

ASSUME ObjectsHaveASection == Section \in [Obj -> 1..Sections] /\ Sections \in Nat
ASSUME NeedsComeEarlier ==
    Needs \in [Obj -> SUBSET Obj] /\ \A o \in Obj : \A n \in Needs[o] : Section[n] < Section[o]
ASSUME ConstantsAreSets == Home \subseteq Obj /\ Content \in [Version -> SUBSET Obj]
ASSUME NothingIsNoOne ==
    None \notin Op \cup Version
    /\ {"absent", "foreign"} \cap Version = {}
ASSUME TornIsNoRecord == \A S \in SUBSET (1..MaxRuns) : S # Torn
ASSUME Bounds == MaxRuns \in Nat /\ MaxMeddling \in Nat /\ MaxChains \in Nat

Run == 1..MaxRuns
=============================================================================
