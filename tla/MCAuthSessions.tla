--------------------------- MODULE MCAuthSessions ---------------------------
(* Two requests at once, two names; handlers are interchangeable.            *)
EXTENDS AuthSessions, TLC

HandlerSymmetry == Permutations(Handler)
=============================================================================
