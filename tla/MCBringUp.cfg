CONSTANTS COLS = 3
          ROWS = 2
          TAB = 2
          ALERT_AFTER = 2
          HEARTBEAT = 2
          Alphabet = {"0", "[", "nl", "cr", "bs", "tab", "esc", "ctl"}
          MaxLines = 3
          MaxStreak = 3
          NO_CLOCK_ATTEMPTS = 4
          DEADLINE_MS = 3
          POLL_MS = 2
          W = 6
          RAM_BASE = 16
          RAM_SIZE = 24
          BOOT_PAGE = 4
          KERNEL_LOAD_ADDR = 20
          WORD = 2
          RISCV_IMAGE_HEADER_LEN = 3
          Kernels <- MCKernels
          Dtbs <- MCDtbs
          Initrds <- MCInitrds
          CONSOLE_POLL_INSNS = 2
          cap = 5
          Chars = {"x", "y"}
          Marker <- MCMarker
          GuestScripts <- MCScripts
          Settings <- MCSettings
SPECIFICATION FairSpec
INVARIANTS GridIsTheBottomOfThePaper OutageIsFlagged StuckIsNamed
           BootImagesIntact BadgeFindsDtb BootRunExact TerminalPutBack
PROPERTIES SinkCatchesUp MainSettles
CHECK_DEADLOCK FALSE
