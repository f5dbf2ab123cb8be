------------------------------- MODULE Digest -------------------------------
(***************************************************************************)
(* The digest credentials of src/src/sip.rs, lines 701 to 799.  A hash is  *)
(* the tuple of what was hashed, in which everybody can compute it and     *)
(* nobody can make two inputs agree; the parameters of a challenge and of  *)
(* a header are records, without those that both sides copy (opaque,       *)
(* algorithm) and with one user and password throughout.                   *)
(***************************************************************************)
EXTENDS Naturals

Absent == "absent"

(* The qop parameter of a challenge, as parse_digest_challenge keeps it:   *)
(* the whole list between the quotes.                                      *)
Qops == {Absent, "auth", "auth,auth-int", "auth-int"}

NonceCount == "00000001"

Ha1(realm)       == <<"user", realm, "password">>
Ha2(method, uri) == <<method, uri>>

(* Mutation of Response: the old formula, whatever the challenge.          *)
ResponseOld(challenge, method, uri, cnonce) ==
    <<Ha1(challenge.realm), challenge.nonce, Ha2(method, uri)>>

(* compute_digest_response: the extended formula for exactly "auth".       *)
Response(challenge, method, uri, cnonce) ==
    IF challenge.qop = "auth"
    THEN <<Ha1(challenge.realm), challenge.nonce, NonceCount, cnonce, "auth",
           Ha2(method, uri)>>
    ELSE <<Ha1(challenge.realm), challenge.nonce, Ha2(method, uri)>>

(* auth_header_value: qop, nc and cnonce are there if a qop was offered.   *)
AuthHeader(challenge, method, uri, cnonce) ==
    [realm |-> challenge.realm, nonce |-> challenge.nonce, uri |-> uri,
     response |-> Response(challenge, method, uri, cnonce),
     qop    |-> IF challenge.qop = Absent THEN Absent ELSE "auth",
     nc     |-> IF challenge.qop = Absent THEN Absent ELSE NonceCount,
     cnonce |-> IF challenge.qop = Absent THEN Absent ELSE cnonce]
=============================================================================
