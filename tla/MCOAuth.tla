------------------------------- MODULE MCOAuth -------------------------------
(* Finite instances of OAuthProvider.  Secrets are interchangeable.         *)
EXTENDS OAuthProvider, TLC

MCSymmetry == Permutations(Request) \union Permutations(Token) \union Permutations(Family)
=============================================================================
