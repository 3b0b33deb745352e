-------------------------- MODULE MCSiteDeployment --------------------------
(* Values of the constants of SiteDeployment for model checking.           *)
EXTENDS SiteDeployment

CONSTANTS more, edited, large

\* One key for each file.  Somebody changes the value of that of php-cli, or
\* adds a key to that map.
MCFiles == [m \in Maps |-> {<<m>>}]

MCEdits == [m \in Maps |->
    IF m = "php-cli" THEN {{edited}, {<<m>>, more}} ELSE {}]

MCSettingsEdits == [m \in Maps |-> IF m = "settings" THEN {{edited}} ELSE {}]

NoOverride == [c \in Containers |-> Unset]

\* A critical site, and a standard one with an override for php-fpm.
MCRequests ==
    {[qos |-> "critical", override |-> NoOverride],
     [qos |-> "standard", override |-> [NoOverride EXCEPT !["php-fpm"] = large]]}
=============================================================================
