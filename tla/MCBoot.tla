------------------------------ MODULE MCBoot ------------------------------
(* Three mounts; three commands: pwd, ls /bin, exit; one descriptor more   *)
(* than the boot uses.                                                     *)
EXTENDS Smoke

MCFilesystems == <<"proc", "sys", "dev">>

(* pwd has no marker; "bin" is in the line "ls /bin", and in what PID 1    *)
(* and ls write; "mfs.info.mb" and the exit's only in their own output.    *)
MCMarks == {{Spawning}, {Spawning, Echo(2), Output(2)}, {Output(2)}, {Output(3)}}
=============================================================================
