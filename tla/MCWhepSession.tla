---- MODULE MCWhepSession ----
(* The modes of a WHEP source, for TLC *)
EXTENDS WhepSession

MCKinds == {"video", "audio"}
\* Auto, VideoAudio, VideoOnly, AudioOnly
MCModes ==
  {<<MCKinds, {"video"}, {"audio"}>>, <<MCKinds>>, <<{"video"}>>, <<{"audio"}>>}
====
