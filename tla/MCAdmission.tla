---------------------------- MODULE MCAdmission ----------------------------
(* Tenants a and b use the same request id i, and a sends its request again  *)
(* and another one; a submission is named by its tenant, id and text.        *)
EXTENDS AdmissionSafety

Carried == [aix |-> <<"i", "a", "x">>, aix2 |-> <<"i", "a", "x">>,
            ajx |-> <<"j", "a", "x">>, bix |-> <<"i", "b", "x">>]
MCId == [q \in Requests |-> Carried[q][1]]
MCTenant == [q \in Requests |-> Carried[q][2]]
MCText == [q \in Requests |-> Carried[q][3]]
==============================================================================
