-------------------------- MODULE MCNotificationHub --------------------------
(* Two students; one of them has two tabs, one of which connects twice. *)
EXTENDS NotificationHub, TLC

CONSTANTS u1, u2, a, b, c, s1, s2, s3, s4

MCStudentOf == (a :> u1 @@ b :> u1 @@ c :> u2)
MCMaxSent == (u1 :> 4 @@ u2 :> 2)
MCPageOf == (s1 :> a @@ s2 :> a @@ s3 :> b @@ s4 :> c)
=============================================================================
