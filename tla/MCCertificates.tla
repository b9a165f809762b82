---------------------------- MODULE MCCertificates ----------------------------
(* Model values and manifests for checking the migration of the certificates. *)
EXTENDS CertificateMigration

CONSTANTS c1, c2, issuer, h1, h2, v1, v2, s1, s2

Plain(kind, name) ==
    [kind |-> kind, name |-> name, inject |-> None, secretName |-> None,
     services |-> {}, need |-> None, indexed |-> FALSE]
Cert(c, s) == [Plain("Certificate", c) EXCEPT !.secretName = s]
Hook(h, c, S) == [Plain("Webhook", h) EXCEPT !.inject = c, !.services = S]
Crd(h, c) == [Plain("CRD", h) EXCEPT !.inject = c]
Svc(s) == Plain("Service", s)
Iss == Plain("Issuer", issuer)

\* A webhook and a CRD; a Service of two certificates, and one that is not in the
\* manifest; a webhook that names a certificate from elsewhere; a certificate
\* without a secret.
MCManifests ==
    {<<Iss, Cert(c1, s1), Svc(v1), Svc(v2), Crd(h1, c1), Hook(h2, c1, {v1})>>,
     <<Cert(c1, s1), Cert(c2, s2), Hook(h1, c1, {v1, v2}), Svc(v1), Hook(h2, c2, {v1})>>,
     <<Iss, Cert(c1, s1), Svc(v1), Hook(h1, c1, {v1}), Crd(h2, c2)>>,
     <<Cert(c1, None), Svc(v1), Hook(h1, c1, {v1})>>}
=============================================================================
