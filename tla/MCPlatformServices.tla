------------------------- MODULE MCPlatformServices -------------------------
(***************************************************************************)
(* What surrounds the store of services/platform-api, for TLC: the token   *)
(* quota, the choice of an RTC node, leases and rate limits, the billing   *)
(* ledger and the way of a request through the server.  They share no      *)
(* state; TLC looks at one at a time, the subject, while the others rest.  *)
(***************************************************************************)
EXTENDS TokenQuota, RtcAdmission, Coordination, Billing, Gateway

VARIABLE subject     \* never changes

Subjects == {"quota", "admission", "coordination", "billing", "gateway"}

servicesVars == <<vars, rtcVars, coordinationVars, billingVars, gatewayVars, subject>>

ServicesInit ==
    /\ Init /\ AdmissionInit /\ CoordinationInit /\ BillingInit /\ GatewayInit
    /\ subject \in Subjects

QuotaMoves ==
    /\ subject = "quota" /\ Next
    /\ UNCHANGED <<rtcVars, coordinationVars, billingVars, gatewayVars, subject>>

AdmissionMoves ==
    /\ subject = "admission" /\ AdmissionNext
    /\ UNCHANGED <<vars, coordinationVars, billingVars, gatewayVars, subject>>

CoordinationMoves ==
    /\ subject = "coordination" /\ CoordinationNext
    /\ UNCHANGED <<vars, rtcVars, billingVars, gatewayVars, subject>>

BillingMoves ==
    /\ subject = "billing" /\ BillingNext
    /\ UNCHANGED <<vars, rtcVars, coordinationVars, gatewayVars, subject>>

GatewayMoves ==
    /\ subject = "gateway" /\ GatewayNext
    /\ UNCHANGED <<vars, rtcVars, coordinationVars, billingVars, subject>>

ServicesNext ==
    QuotaMoves \/ AdmissionMoves \/ CoordinationMoves \/ BillingMoves \/ GatewayMoves

\* Time passes for the counters of the quota, whatever the replicas do.
ServicesSpec ==
    /\ ServicesInit /\ [][ServicesNext]_servicesVars
    /\ WF_vars(subject = "quota" /\ Tick)
=============================================================================
