---------------------------- MODULE MCOnboarding ----------------------------
(***************************************************************************)
(* The road to a first worker, in one run: `part` says whether a behaviour *)
(* is about the operator who is onboarded or about an image from its       *)
(* release to a registered worker.  The other part stays as it began.      *)
(***************************************************************************)
EXTENDS Onboarding, Release

VARIABLE part

MCTemplate == 2 :> "b" @@ 3 :> "b"

MCBuilt == 2 :> {"hop"} @@ 3 :> {"slots", "hop", "bedrock"}

Root(i, f, d) == [id |-> i, forever |-> f, default |-> d]

MCRootSets == {{Root("k1", TRUE, TRUE), Root("k2", FALSE, FALSE)},
               {Root("k1", TRUE, FALSE), Root("k2", FALSE, TRUE)}}

allVars == <<part, onboardingVars, releaseVars>>

NoOnboarding ==
  /\ OnboardingInit /\ chain = {}
  /\ \A t \in DOMAIN tools : tools[t] = "ok"

NoRelease ==
  /\ ReleaseInit /\ table = [n \in Nets |-> <<>>] /\ echo = {} /\ terms = "old"
  /\ roots = CHOOSE rs \in RootSets : TRUE

MCInit == \/ part = "onboarding" /\ OnboardingInit /\ NoRelease
          \/ part = "release" /\ NoOnboarding /\ ReleaseInit

MCNext == \/ part = "onboarding" /\ OnboardingNext /\ UNCHANGED <<part, releaseVars>>
          \/ part = "release" /\ ReleaseNext /\ UNCHANGED <<part, onboardingVars>>

MCSpec == MCInit /\ [][MCNext]_allVars

=============================================================================
