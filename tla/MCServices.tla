------------------------------ MODULE MCServices ------------------------------
(***************************************************************************)
(* The parts of the daemon around its pipeline and its player, each on a   *)
(* small instance.  They share no state with one another in these models,  *)
(* so one of them runs in a behavior while the others rest where they      *)
(* began: a state of the run is a state of one part.                       *)
(***************************************************************************)
EXTENDS Retention, ModelSetup, ModelWorker, CallbackOutput, FilePlayback, InputInterrupt,
        LocalServer, VoiceRegister, Segmentation, Installation, TLC

MCParts == ("doc" :> 2) @@ ("memo" :> 1)
MCFirstEngines == ("kokoro" :> 1) @@ ("chatterbox" :> 2)
MCHome == ("d1" :> "h1") @@ ("d2" :> "h1") @@ ("d3" :> "h2")
MCCatalog == ("kokoro" :> <<"bm", "jf">>) @@ ("chatterbox" :> <<"cb">>)
MCLanguage == ("bm" :> "en") @@ ("jf" :> "ja") @@ ("cb" :> "other")

NoAgent == [plist |-> None, service |-> None]

VARIABLE running
vars == <<retentionVars, modelVars, workerVars, outputVars, fileVars, inputVars, serverVars,
          voiceVars, segmentationVars, installVars, running>>

Services == {"retention", "models", "worker", "output", "file", "input", "server", "voices",
             "segmentation", "install"}

\* The parts that do not run are left in one of their initial states.
Init ==
  /\ running \in Services
  /\ RetentionInit /\ (running # "retention" => limit = 0)
  /\ ModelInit /\ (running # "models" => manifest = {})
  /\ WorkerInit /\ OutputInit /\ FileInit
  /\ InputInit /\ (running # "input" => mic = "cold" /\ ~interrupting /\ ~whenIdle)
  /\ ServerInit
  /\ VoiceInit /\ (running # "voices" => offered = {Reference} /\ languages = {"en"})
  /\ SegmentationInit /\ (running # "segmentation" => words = <<"space">> /\ ~markdown)
  /\ InstallInit /\ (running # "install" => ~ui /\ tools = "old" /\ app = "old"
                                            /\ \A a \in LaunchAgents : before[a] = NoAgent)

Next ==
  \/ /\ running = "retention" /\ RetentionNext
     /\ UNCHANGED <<modelVars, workerVars, outputVars, fileVars, inputVars, serverVars,
                    voiceVars, segmentationVars, installVars, running>>
  \/ /\ running = "models" /\ ModelNext
     /\ UNCHANGED <<retentionVars, workerVars, outputVars, fileVars, inputVars, serverVars,
                    voiceVars, segmentationVars, installVars, running>>
  \/ /\ running = "worker" /\ WorkerNext
     /\ UNCHANGED <<retentionVars, modelVars, outputVars, fileVars, inputVars, serverVars,
                    voiceVars, segmentationVars, installVars, running>>
  \/ /\ running = "output" /\ OutputNext
     /\ UNCHANGED <<retentionVars, modelVars, workerVars, fileVars, inputVars, serverVars,
                    voiceVars, segmentationVars, installVars, running>>
  \/ /\ running = "file" /\ FileNext
     /\ UNCHANGED <<retentionVars, modelVars, workerVars, outputVars, inputVars, serverVars,
                    voiceVars, segmentationVars, installVars, running>>
  \/ /\ running = "input" /\ InputNext
     /\ UNCHANGED <<retentionVars, modelVars, workerVars, outputVars, fileVars, serverVars,
                    voiceVars, segmentationVars, installVars, running>>
  \/ /\ running = "server" /\ ServerNext
     /\ UNCHANGED <<retentionVars, modelVars, workerVars, outputVars, fileVars, inputVars,
                    voiceVars, segmentationVars, installVars, running>>
  \/ /\ running = "voices" /\ VoiceNext
     /\ UNCHANGED <<retentionVars, modelVars, workerVars, outputVars, fileVars, inputVars,
                    serverVars, segmentationVars, installVars, running>>
  \/ /\ running = "segmentation" /\ SegmentationNext
     /\ UNCHANGED <<retentionVars, modelVars, workerVars, outputVars, fileVars, inputVars,
                    serverVars, voiceVars, installVars, running>>
  \/ /\ running = "install" /\ InstallNext
     /\ UNCHANGED <<retentionVars, modelVars, workerVars, outputVars, fileVars, inputVars,
                    serverVars, voiceVars, segmentationVars, running>>

Fairness ==
  /\ \A w \in Renderers :
       /\ WF_modelVars(running = "models" /\ Thread(w))
       /\ WF_modelVars(running = "models" /\ Wakes(w))
       /\ WF_modelVars(running = "models" /\ Parks(w))
  /\ WF_modelVars(running = "models" /\ Reloads)
  /\ WF_modelVars(running = "models" /\ Setups)
  /\ WF_modelVars(running = "models" /\ WarmBegins)
  /\ WF_modelVars(running = "models" /\ \E ok \in BOOLEAN : WarmEnds(ok))
  /\ \A c \in Callers : WF_outputVars(running = "output" /\ Preparing(c))
  /\ WF_outputVars(running = "output" /\ Attach)
  /\ WF_outputVars(running = "output" /\ Detach)
  /\ WF_outputVars(running = "output" /\ Streaming)
  /\ WF_outputVars(running = "output" /\ RendererEnds(TRUE))
  /\ WF_fileVars(running = "file" /\ PlayFile)
  /\ WF_inputVars(running = "input" /\ Watcher)
  /\ WF_inputVars(running = "input" /\ cue /\ CueChanges)
  /\ WF_serverVars(running = "server" /\ WaitStep)

Spec == Init /\ [][Next]_vars /\ Fairness

\* A speech session of the sink ends, on the prepared output as in a file's streams.
SessionsEnd == OutputSessionsEnd /\ FileSessionsEnd
=============================================================================
