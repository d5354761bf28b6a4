---------------------------- MODULE ClientErrors ----------------------------
(***************************************************************************)
(* How the connector classifies an exception of clickhouse-connect.  Both  *)
(* translators look at the error code and at words of the message, in this *)
(* order: authentication, privileges, (discovery only) missing objects,    *)
(* transport; anything else depends on the operation.  A kind names the    *)
(* first of these tests that an exception meets.                           *)
(***************************************************************************)

Kinds == {"auth", "denied", "missing", "network", "other"}

\* clickhouse-connect reports a request without an answer as a timeout, a
\* connection error or a failed HTTP request, all of which are "network".  An
\* answered request can also be of that kind: the driver words some server
\* errors as HTTP failures.
LostKinds == {"network"}

\* _translate of _transport.py.
TransportTranslate(kind, operation) ==
    CASE kind = "auth"    -> "AuthenticationError"
      [] kind = "denied"  -> "PermissionError"
      [] kind = "network" -> "TransportError"
      [] OTHER -> IF operation = "Arrow insert" THEN "WriteError" ELSE "ReadError"

\* _translate of _discovery.py, which _ddl.py uses too.
DiscoveryTranslate(kind, operation) ==
    CASE kind = "auth"    -> "AuthenticationError"
      [] kind = "denied"  -> "PermissionError"
      [] kind = "missing" -> "ObjectNotFoundError"
      [] kind = "network" -> "TransportError"
      [] OTHER -> IF operation = "schema discovery" THEN "SchemaError" ELSE "DiscoveryError"

TranslatedErrors ==
    {"AuthenticationError", "PermissionError", "ObjectNotFoundError", "TransportError",
     "WriteError", "ReadError", "SchemaError", "DiscoveryError"}
=============================================================================
