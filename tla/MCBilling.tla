------------------------------ MODULE MCBilling ------------------------------
(* Instances of Billing small enough for TLC: a month is one tick, a year   *)
(* three, so that a renewal, a change of plan and an expired period happen; *)
(* both providers are configured.  YooKassa's notifications come directly,  *)
(* through a proxy the process trusts, and through one it does not;         *)
(* CryptoBot's are signed with the process' token or with an older one.     *)
EXTENDS Billing

MCCredentials == {"YOOKASSA_SHOP_ID", "YOOKASSA_SECRET_KEY", "CRYPTOBOT_TOKEN"}

MCConnections == {[peer |-> "yookassa", named |-> None],
                  [peer |-> "nginx", named |-> "yookassa"],
                  [peer |-> "balancer", named |-> "yookassa"]}
=============================================================================
