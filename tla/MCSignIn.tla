------------------------------ MODULE MCSignIn ------------------------------
EXTENDS SignIn, TLC

CONSTANTS h1, h2, h3, b1, b2, a1

ThreeHandlers == {h1, h2, h3}
TwoBrowsers == {b1, b2}
OneAccount == {a1}
SignInSymmetry == Permutations(ThreeHandlers) \cup Permutations(TwoBrowsers)

=============================================================================
