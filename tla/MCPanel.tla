------------------------------- MODULE MCPanel -------------------------------
EXTENDS Panel, TLC

Setting(url, urlOn, srv, srvOn) ==
  [url |-> url, urlOn |-> urlOn, srv |-> srv, srvOn |-> srvOn]

\* A URL in force over a proxy server that is not, neither, and the reverse.
MCMachines ==
  {<<"windows", Setting("user", TRUE, "user", FALSE)>>,
   <<"linux",   Setting("user", FALSE, "user", FALSE)>>,
   <<"darwin",  Setting("none", FALSE, "user", TRUE)>>}

Symmetry == Permutations(Threads) \cup Permutations(Pids) \cup Permutations(Passwords)

\* What the steps of a state and the properties depend on.  With an undo that
\* has not failed the setting counts only through what it leads back to; once
\* nothing is claimed of the proxy, neither it nor the mode counts.  A password
\* counts while a client may still read it, or is claimed to have it.
Released == IF undo = None THEN sys ELSE Restored(undo, sys)

Clients ==
  <<up, cfg.pass, LoadWebConfig.pass, child, pidFile, late, lost,
    IF Starting = {} THEN NoPass ELSE authFile,
    [p \in Pids |-> IF p \in late \cup lost THEN proc[p].st ELSE proc[p]],
    [t \in Threads |-> <<th[t].pc, th[t].job>>]>>

Proxy == <<plat, user, undo = None, Released, cfg.mode, LoadWebConfig.mode,
           [t \in Threads |-> th[t].mode]>>

View == <<Clients, IF killed \/ failed THEN <<>> ELSE Proxy>>
=============================================================================
