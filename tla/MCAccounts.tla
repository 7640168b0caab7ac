----------------------------- MODULE MCAccounts -----------------------------
(***************************************************************************)
(* Sessions, Onboarding, IdentityReview, Wallet and Redirects for TLC.     *)
(* They share no field, so a behaviour plays one of them.                  *)
(***************************************************************************)
EXTENDS Redirects, Sessions, IdentityReview, Onboarding, Wallet, TLC

CONSTANTS p1, p2, p3, p4, a, b, g2, g3

VARIABLE scene

Scenes == {"edits", "usernames", "sessions", "foreign", "tick", "names", "onboarding", "wallet"}

Init ==
    /\ scene \in Scenes
    /\ RedirectInit /\ SessionInit /\ ReviewInit /\ OnboardingInit /\ WalletInit
    /\ scene # "usernames" => address[a] = p1 /\ address[b] = p2

RedirectMoves ==
    \/ scene = "edits" /\ RedirectNext /\ address'[b] = p2
         /\ \A r \in Requests : request'[r] # Waiting => p4 \notin {request'[r].from, request'[r].to}
    \/ scene = "usernames" /\ RedirectNext /\ undisturbed'

ReviewMoves ==
    \/ scene = "foreign" /\ ForeignNext /\ g3 \notin stored'
    \/ scene = "tick" /\ TickNext /\ \A u \in People : tick'[u].front # g2 /\ tick'[u].back \in {g2, NoImage}
    \/ scene = "names" /\ NameNext

Next ==
    /\ UNCHANGED scene
    /\ \/ RedirectMoves /\ UNCHANGED <<sessionVars, reviewVars, onboardingVars, walletVars>>
       \/ scene = "sessions" /\ SessionNext /\ UNCHANGED <<redirectVars, reviewVars, onboardingVars, walletVars>>
       \/ ReviewMoves /\ UNCHANGED <<redirectVars, sessionVars, onboardingVars, walletVars>>
       \/ scene = "onboarding" /\ OnboardingNext /\ UNCHANGED <<redirectVars, sessionVars, reviewVars, walletVars>>
       \/ scene = "wallet" /\ WalletNext /\ UNCHANGED <<redirectVars, sessionVars, reviewVars, onboardingVars>>

Spec == Init /\ [][Next]_<<redirectVars, sessionVars, reviewVars, onboardingVars, walletVars, scene>>
=============================================================================
