CONSTANTS MAX_PAYLOAD = 2
          NoiseCap = 3
          Payloads <- MCPayloads
          Texts = {1, 2}
          MaxItems = 2
SPECIFICATION FramingSpec
INVARIANTS GoodFramesInOrder AllAccountedFor CutsDoNotMatter HiddenOnlyByAHeader
CHECK_DEADLOCK FALSE
