---------------------------- MODULE MCClientAuth ----------------------------
(* Small instances of ClientAuth for TLC. *)
EXTENDS ClientAuth

\* The default of the daemon, and a daemon that offers OpenID Connect only.
SomeLocals == {{}, {OpenId}}

Ctx(preferred, demanded, config) ==
  [preferred |-> preferred, required |-> demanded, config |-> config]

\* No wishes; a list of preferred methods, and an empty one; one, two and three
\* required methods; a session configuration that offers what is required, and
\* one that does not.
SomeContexts ==
  { Ctx(Absent, {}, Absent),
    Ctx({"interactive", OpenId}, {}, Absent),
    Ctx({}, {}, Absent),
    Ctx({PublicKey}, {"interactive"}, Absent),
    Ctx(Absent, {PublicKey, "interactive"}, Absent),
    Ctx(Absent, {PublicKey, OpenId}, Absent),
    Ctx(Absent, {PublicKey, "interactive", OpenId}, Absent),
    Ctx(Absent, {"interactive", OpenId}, {"interactive", OpenId, PublicKey}),
    Ctx(Absent, {"interactive"}, {PublicKey}) }
=============================================================================
