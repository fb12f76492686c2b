------------------------------- MODULE MCAccess -------------------------------
(* Two browsers; a browser and a script; a browser and a screen; sign-ins and  *)
(* password changes at the limit.                                              *)
EXTENDS Access

MCBrowsers == {"desk", "laptop"}

Where(who, does, ws, paid, n, fail, times, last) ==
    [clients |-> who, kinds |-> does, words |-> ws, cost |-> paid, requests |-> n, faults |-> fail,
     failures |-> times, until |-> last]

AllSituations ==
    {Where(MCBrowsers, {"signin", "page", "signout", "everywhere"}, {"old"}, "present", 5, {}, 0, 3),
     Where({"desk"}, {"signin", "page"}, {"old"}, "present", 6, {"store"}, 1, 7),
     Where({"desk", Script}, {"signin", "page", "mint", "revoke"}, {"old"}, "present", 6, {}, 0, 0),
     Where(MCBrowsers, {"signin", "mint", "page", "remove", "passwd"}, {"old"}, "past", 4, {"store"}, 1, 0),
     Where({"desk", Screen}, {"signin", "publish", "withdraw"}, Words, "present", 3, {"store", "limited"}, 2, 3),
     Where(MCBrowsers, {"signin"}, {"old"}, "present", 6, {}, 0, 6),
     Where(MCBrowsers, {"signin", "change"}, Words, "present", 5, {}, 0, 0)}
=============================================================================
