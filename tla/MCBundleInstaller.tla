------------------------- MODULE MCBundleInstaller -------------------------
(* Instance of BundleInstaller for TLC.                                    *)
EXTENDS BundleInstaller

CONSTANTS wrapper, plain, w, s, team, solo

\* plan is spec-kit's, sync the extension's: the wrapper wraps both, the plain preset
\* replaces both, also while the extension is not there.
MCStrategy ==
    [p \in Presets |-> [n \in Names |-> IF p = wrapper THEN "wrap" ELSE "replace"]]

MCRank == [p \in Presets |-> IF p = wrapper THEN 1 ELSE 2]

MCPlans ==
    [q \in Bundles |-> IF q = team THEN <<<<Extension, wrapper, w>>, <<wrapper, w>>>> ELSE <<<<wrapper, s>>>>]

=============================================================================
