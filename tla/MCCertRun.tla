------------------------------ MODULE MCCertRun ------------------------------
(* Every fixture of the harness, two runs of each. *)
EXTENDS CertRun, CertFixtures

MCFixtures == FixturesYaml
=============================================================================
