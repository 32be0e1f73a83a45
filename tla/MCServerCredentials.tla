------------------------- MODULE MCServerCredentials -------------------------
(***************************************************************************)
(* Two key pairs, a renewed certificate for the first key, and an upload of *)
(* each kind that does not parse.                                           *)
(***************************************************************************)
EXTENDS ServerCredentials

CONSTANTS cert1, renewed1, cert2, badCert, key1, key2, badKey

MCCertificate == {cert1, renewed1, cert2, badCert}
MCKey == {key1, key2, badKey}
MCMalformed == {badCert, badKey}
MCPairs == {<<cert1, key1>>, <<renewed1, key1>>, <<cert2, key2>>}
MCContent == {Default} \cup [certificate : MCCertificate, key : MCKey]
MCNoLegacy == {}
MCNoMigration == [c \in {} |-> Default]
=============================================================================
